---- MODULE Spec2Model ----
(***************************************************************************)
(* A model of caddyserver/moduledoc: the representation builder           *)
(* (buildRepresentation), the dereference engine (dereference,            *)
(* deepDereference), the path traversal engine (TraverseType) and the     *)
(* Driver's public surface, over a Storage that keeps what StoreType was  *)
(* given.                                                                  *)
(*                                                                         *)
(* Strings are sequences of tokens: the separators the code splits or     *)
(* joins on (".", "@", "/", ",", the double quote, newline) are tokens of *)
(* their own, every other token is a run of ordinary characters.  The     *)
(* empty string is <<>>.  A Go pointer that may be nil is a sequence of    *)
(* length 0 (nil) or 1 (pointer to Value, pointer to string).             *)
(***************************************************************************)
EXTENDS Integers, Sequences, FiniteSets, TLC

VARIABLES db, moduleNames, discoveredTypes, storeCalls, commits, crashed, result, scan,
          builders, mu, workspaces

vars == <<db, moduleNames, discoveredTypes, storeCalls, commits, crashed, result, scan,
          builders, mu, workspaces>>

\* the state of the calls that run at the same time: the goroutines that
\* build, the Driver's lock, and the workspaces the calls have opened
concurrent == <<builders, mu, workspaces>>

\* The deepest chain of nested calls the runtime's stack holds; a call that
\* would go deeper ends the process (Go's fatal "stack overflow").
MaxStack == 9

-----------------------------------------------------------------------------
\* ---- strings ----

\* strings.Index: the first position of token c in s, 0 when absent
Index(s, c) ==
  IF \E i \in 1..Len(s) : s[i] = c
  THEN CHOOSE i \in 1..Len(s) : s[i] = c /\ \A j \in 1..(i-1) : s[j] # c
  ELSE 0

\* strings.LastIndex
LastIndex(s, c) ==
  IF \E i \in 1..Len(s) : s[i] = c
  THEN CHOOSE i \in 1..Len(s) : s[i] = c /\ \A j \in (i+1)..Len(s) : s[j] # c
  ELSE 0

\* strings.SplitN(s, c, 2)
SplitN2(s, c) ==
  LET i == Index(s, c) IN
  IF i = 0 THEN <<s>> ELSE <<SubSeq(s, 1, i-1), SubSeq(s, i+1, Len(s))>>

RECURSIVE Split(_, _)
\* strings.Split(s, c): always at least one part, empty parts kept
Split(s, c) ==
  LET i == Index(s, c) IN
  IF i = 0 THEN <<s>> ELSE <<SubSeq(s, 1, i-1)>> \o Split(SubSeq(s, i+1, Len(s)), c)

RECURSIVE TrimLeft(_, _)
TrimLeft(s, cut) == IF s # <<>> /\ Head(s) \in cut THEN TrimLeft(Tail(s), cut) ELSE s

RECURSIVE TrimRight(_, _)
TrimRight(s, cut) ==
  IF s # <<>> /\ s[Len(s)] \in cut THEN TrimRight(SubSeq(s, 1, Len(s)-1), cut) ELSE s

\* strings.Trim(s, cutset)
Trim(s, cut) == TrimRight(TrimLeft(s, cut), cut)

WhiteSpace == {" ", "\n"}

\* strings.TrimSpace
TrimSpace(s) == Trim(s, WhiteSpace)

\* strings.Join(parts, "/")
RECURSIVE JoinSlash(_)
JoinSlash(parts) ==
  IF parts = <<>> THEN <<>>
  ELSE IF Len(parts) = 1 THEN parts[1]
  ELSE parts[1] \o <<"/">> \o JoinSlash(Tail(parts))

\* the "\n\n" the code puts between two docs
DocSep == <<"\n", "\n">>

SplitLastDot(input) ==
  LET lastDot == LastIndex(input, ".") IN
  IF lastDot = 0 THEN [before |-> <<>>, after |-> input]
  ELSE [before |-> SubSeq(input, 1, lastDot-1), after |-> SubSeq(input, lastDot+1, Len(input))]

ConfigPathParts(configPath) == Split(Trim(configPath, {"/"}), "/")

\* reflect.StructTag.Get("json") has been applied: jsonTag is the text of the
\* json annotation, <<>> when the tag has none.
jsonNameFromTag(jsonTag) ==
  LET commaIdx == Index(jsonTag, ",")
      jsonName == IF commaIdx > 1 THEN TrimSpace(SubSeq(jsonTag, 1, commaIdx-1)) ELSE jsonTag
  IN IF jsonName = <<"-">> THEN [name |-> <<>>, ok |-> FALSE]
     ELSE [name |-> jsonName, ok |-> TRUE]

-----------------------------------------------------------------------------
\* ---- Value ----

EmptyValue ==
  [Type |-> "", TypeName |-> <<>>, StructFields |-> <<>>, MapKeys |-> <<>>,
   Elems |-> <<>>, Doc |-> <<>>, SameAs |-> <<>>,
   ModuleNamespace |-> <<>>, ModuleInlineKey |-> <<>>]

Bool == "bool"
IntKind == "int"
Uint == "uint"
Float == "float"
Complex == "complex"
String == "string"
Struct == "struct"
Array == "array"
Map == "map"
Module == "module"
ModuleMap == "module_map"

Leaf(kind) == [EmptyValue EXCEPT !.Type = kind]
\* a placeholder that also says what kind its target is
PlaceholderWithKind(sameAs) == [EmptyValue EXCEPT !.SameAs = sameAs, !.Type = Struct]
Placeholder(sameAs) == [EmptyValue EXCEPT !.SameAs = sameAs]
StructField(key, value, doc) == [Key |-> key, Value |-> value, Doc |-> doc]

IsPlaceholder(v) == v.SameAs # <<>>

-----------------------------------------------------------------------------
\* ---- the Go types the introspection provider hands to the builder ----

TBasic(b) == [k |-> "basic", b |-> b]
TNamed(n) == [k |-> "named", n |-> n]
TPointer(e) == [k |-> "pointer", elem |-> e]
TSlice(e) == [k |-> "slice", elem |-> e]
TMap(key, e) == [k |-> "map", key |-> key, elem |-> e]
TStruct(fs) == [k |-> "struct", fields |-> fs]
TInterface == [k |-> "interface"]
TChan == [k |-> "chan"]

\* the "caddy" struct tag as caddy.ParseStructTag returns it: the keys present
\* (nil when absent) and whether parsing fails
NoCaddyTag == [namespace |-> <<>>, inline_key |-> <<>>, malformed |-> FALSE]
CaddyTag(ns, ik) == [namespace |-> ns, inline_key |-> ik, malformed |-> FALSE]

GoField(name, exported, embedded, jsonTag, caddyTag, typ) ==
  [name |-> name, exported |-> exported, embedded |-> embedded,
   json |-> jsonTag, caddy |-> caddyTag, typ |-> typ]

CaddyCorePackage == <<"github", ".", "com", "/", "caddyserver", "/", "caddy", "/", "v2">>
JSONPackage == <<"encoding", "/", "json">>
PluginPackage == <<"example", ".", "com", "/", "plugin">>

\* packages of the Go standard library: go list reports no module version
StandardPackages == {JSONPackage}

\* the version go list reports for the module packages of a workspace
ModuleVersion == <<"v2", ".", "4">>

HTTPHandlers == <<"http", ".", "handlers">>

TypeIds == {"Config", "AdminConfig", "Remote", "ModuleMap", "RawMessage", "Node", "Bad",
            "Opts", "App", "FileServer", "Base", "Dup", "Handler", "Ptr", "RouteList"}

Decls ==
  [id \in TypeIds |->
    CASE id = "Config" ->
      [pkg |-> CaddyCorePackage, name |-> <<"Config">>, doc |-> <<"DConfig", "\n">>,
       fieldDocs |-> [n \in {"Admin", "Handler"} |->
                        IF n = "Admin" THEN <<"FAdmin", "\n">> ELSE <<"FHandler", "\n">>],
       underlying |-> TStruct(<<
         GoField("Admin", TRUE, FALSE, <<"admin", ",", "omitempty">>, NoCaddyTag,
                 TPointer(TNamed("AdminConfig"))),
         GoField("AppsRaw", TRUE, FALSE, <<"apps", ",", "omitempty">>, CaddyTag(<< <<>> >>, <<>>),
                 TNamed("ModuleMap")),
         GoField("Items", TRUE, FALSE, <<"items">>, NoCaddyTag,
                 TSlice(TStruct(<<
                   GoField("Name", TRUE, FALSE, <<"name">>, NoCaddyTag, TBasic("string")),
                   GoField("Weight", TRUE, FALSE, <<>>, NoCaddyTag, TBasic("int")),
                   GoField("Internal", TRUE, FALSE, <<"-">>, NoCaddyTag, TBasic("bool"))>>))),
         GoField("Handler", TRUE, FALSE, <<"handler">>,
                 CaddyTag(<<HTTPHandlers>>, << <<"handler">> >>), TNamed("RawMessage")),
         GoField("secret", FALSE, FALSE, <<"secret">>, NoCaddyTag, TBasic("string")),
         GoField("Skipped", TRUE, FALSE, <<"-">>, NoCaddyTag, TBasic("int"))>>)]
    [] id = "AdminConfig" ->
      [pkg |-> CaddyCorePackage, name |-> <<"AdminConfig">>, doc |-> <<"DAdmin", "\n">>,
       fieldDocs |-> [n \in {"Listen", "Remote"} |->
                        IF n = "Listen" THEN <<"FListen", "\n">> ELSE <<"FRemote", "\n">>],
       underlying |-> TStruct(<<
         GoField("Listen", TRUE, FALSE, <<"listen">>, NoCaddyTag, TBasic("string")),
         GoField("Any", TRUE, FALSE, <<"any">>, NoCaddyTag, TInterface),
         GoField("Remote", TRUE, FALSE, <<"remote", ",", "omitempty">>, NoCaddyTag,
                 TPointer(TNamed("Remote")))>>)]
    [] id = "Remote" ->
      [pkg |-> CaddyCorePackage, name |-> <<"Remote">>, doc |-> <<"DRemote", "\n">>,
       fieldDocs |-> <<>>,
       underlying |-> TStruct(<<
         GoField("Addr", TRUE, FALSE, <<"addr">>, NoCaddyTag, TBasic("string"))>>)]
    [] id = "ModuleMap" ->
      [pkg |-> CaddyCorePackage, name |-> <<"ModuleMap">>, doc |-> <<"DModuleMap", "\n">>,
       fieldDocs |-> <<>>,
       underlying |-> TMap(TBasic("string"), TNamed("RawMessage"))]
    [] id = "RawMessage" ->
      [pkg |-> JSONPackage, name |-> <<"RawMessage">>, doc |-> <<"DRawMessage", "\n">>,
       fieldDocs |-> <<>>,
       underlying |-> TSlice(TBasic("uint8"))]
    [] id = "Node" ->
      [pkg |-> PluginPackage, name |-> <<"Node">>, doc |-> <<"DNode", "\n">>,
       fieldDocs |-> <<>>,
       underlying |-> TStruct(<<
         GoField("Label", TRUE, FALSE, <<"label">>, NoCaddyTag, TBasic("string")),
         GoField("Next", TRUE, FALSE, <<"next">>, NoCaddyTag, TPointer(TNamed("Node")))>>)]
    [] id = "Bad" ->
      [pkg |-> PluginPackage, name |-> <<"Bad">>, doc |-> <<>>,
       fieldDocs |-> <<>>,
       underlying |-> TStruct(<<
         GoField("Base", TRUE, FALSE, <<"base">>, NoCaddyTag, TNamed("Base")),
         GoField("C", TRUE, FALSE, <<"c">>, NoCaddyTag, TChan)>>)]
    [] id = "Opts" ->
      [pkg |-> PluginPackage, name |-> <<"Opts">>, doc |-> <<"DOpts", "\n">>,
       fieldDocs |-> <<>>,
       underlying |-> TStruct(<<
         GoField("Name", TRUE, FALSE, <<",", "omitempty">>, NoCaddyTag, TBasic("string")),
         GoField("HandlersRaw", TRUE, FALSE, <<"handlers">>,
                 CaddyTag(<<HTTPHandlers>>, << <<"handler">> >>),
                 TSlice(TNamed("RawMessage"))),
         GoField("RoutesRaw", TRUE, FALSE, <<"routes">>,
                 CaddyTag(<<HTTPHandlers>>, << <<"handler">> >>),
                 TMap(TBasic("string"), TSlice(TNamed("RawMessage")))),
         GoField("ByCode", TRUE, FALSE, <<"by_code">>, NoCaddyTag,
                 TMap(TBasic("int"), TPointer(TNamed("RawMessage"))))>>)]
    [] id = "App" ->
      [pkg |-> PluginPackage, name |-> <<"App">>, doc |-> <<"DApp", "\n">>,
       fieldDocs |-> [n \in {"Servers"} |-> <<"FServers", "\n">>],
       underlying |-> TStruct(<<
         GoField("Servers", TRUE, FALSE, <<"servers">>, NoCaddyTag,
                 TMap(TBasic("string"), TPointer(TNamed("Base")))),
         GoField("Extra", TRUE, FALSE, <<"extra">>, NoCaddyTag,
                 TStruct(<<
                   GoField("Base", TRUE, TRUE, <<>>, NoCaddyTag, TNamed("Base")),
                   GoField("On", TRUE, FALSE, <<"on">>, NoCaddyTag, TBasic("bool"))>>))>>)]
    [] id = "FileServer" ->
      [pkg |-> PluginPackage, name |-> <<"FileServer">>, doc |-> <<"DFileServer", "\n">>,
       fieldDocs |-> [n \in {"Root"} |-> <<"FRoot", "\n">>],
       underlying |-> TStruct(<<
         GoField("Base", TRUE, TRUE, <<>>, NoCaddyTag, TNamed("Base")),
         GoField("Root", TRUE, FALSE, <<"root", ",", "omitempty">>, NoCaddyTag, TBasic("string"))>>)]
    [] id = "Dup" ->
      [pkg |-> PluginPackage, name |-> <<"Dup">>, doc |-> <<"DDup", "\n">>,
       fieldDocs |-> [n \in {"Hide"} |-> <<"FOwnHide", "\n">>],
       underlying |-> TStruct(<<
         GoField("Base", TRUE, TRUE, <<>>, NoCaddyTag, TNamed("Base")),
         GoField("Hide", TRUE, FALSE, <<"hide">>, NoCaddyTag, TBasic("bool")),
         GoField("Next", TRUE, FALSE, <<"next">>, NoCaddyTag, TNamed("Handler")),
         GoField("Peer", TRUE, FALSE, <<"peer">>, NoCaddyTag, TNamed("Ptr")),
         GoField("Routes", TRUE, FALSE, <<"routes">>,
                 CaddyTag(<<HTTPHandlers>>, << <<"handler">> >>), TNamed("RouteList"))>>)]
    [] id = "Handler" ->
      [pkg |-> PluginPackage, name |-> <<"Handler">>, doc |-> <<"DHandler", "\n">>,
       fieldDocs |-> <<>>,
       underlying |-> TInterface]
    [] id = "RouteList" ->
      [pkg |-> PluginPackage, name |-> <<"RouteList">>, doc |-> <<"DRouteList", "\n">>,
       fieldDocs |-> <<>>,
       underlying |-> TMap(TBasic("string"), TSlice(TNamed("RawMessage")))]
    [] id = "Ptr" ->
      [pkg |-> PluginPackage, name |-> <<"Ptr">>, doc |-> <<"DPtr", "\n">>,
       fieldDocs |-> <<>>,
       underlying |-> TPointer(TNamed("Remote"))]
    [] id = "Base" ->
      [pkg |-> PluginPackage, name |-> <<"Base">>, doc |-> <<"DBase", "\n">>,
       fieldDocs |-> [n \in {"Hide"} |-> <<"FHide", "\n">>],
       underlying |-> TStruct(<<
         GoField("Hide", TRUE, FALSE, <<"hide">>, NoCaddyTag, TSlice(TBasic("string")))>>)]]

-----------------------------------------------------------------------------
\* ---- Storage ----
\* db maps (package, name, version) to the representations StoreType was given
\* for it, oldest first; moduleNames maps a Caddy module ID to the types
\* SetCaddyModuleName gave it, oldest first.

TypeKey(packagePath, typeName, version) == <<packagePath, typeName, version>>

\* the entry GetTypeByName returns: the exact (package, name, version) when
\* stored, else, for an empty version, an entry of the same package and name
GetTypeByName(d, packagePath, typeName, version) ==
  LET exact == TypeKey(packagePath, typeName, version)
      bare == {key \in DOMAIN d : key[1] = packagePath /\ key[2] = typeName}
  IN IF exact \in DOMAIN d THEN <<d[exact][Len(d[exact])]>>
     ELSE IF version = <<>> /\ bare # {}
       THEN LET key == CHOOSE key \in bare : TRUE IN <<d[key][Len(d[key])]>>
       ELSE <<>>

StoreType(d, packagePath, typeName, version, rep) ==
  LET key == TypeKey(packagePath, typeName, version) IN
  IF key \in DOMAIN d THEN [d EXCEPT ![key] = Append(@, rep)]
  ELSE [k2 \in DOMAIN d \cup {key} |-> IF k2 = key THEN <<rep>> ELSE d[k2]]

RECURSIVE LoadAll(_, _)
LoadAll(d, keys) ==
  IF keys = <<>> THEN <<>>
  ELSE LET k1 == Head(keys)
           got == GetTypeByName(d, k1[1], k1[2], k1[3])
       IN got \o LoadAll(d, Tail(keys))

GetTypesByCaddyModuleID(d, names, caddyModuleID) ==
  IF caddyModuleID \in DOMAIN names THEN LoadAll(d, names[caddyModuleID]) ELSE <<>>

SetCaddyModuleName(names, key, modName) ==
  IF modName \in DOMAIN names
  THEN IF \E i \in 1..Len(names[modName]) : names[modName][i] = key
       THEN names
       ELSE [names EXCEPT ![modName] = Append(@, key)]
  ELSE [m \in DOMAIN names \cup {modName} |-> IF m = modName THEN <<key>> ELSE names[m]]

-----------------------------------------------------------------------------
\* ---- the dereference engine ----

getTypeByFullName(d, fqtn, version) ==
  GetTypeByName(d, SplitLastDot(fqtn).before, SplitLastDot(fqtn).after, version)

\* the two assignments after one step into the elems
TransferOneLevel(typ, ns, ik) ==
  IF typ.Elems # <<>>
  THEN [typ EXCEPT !.Elems = <<[typ.Elems[1] EXCEPT !.ModuleNamespace = ns, !.ModuleInlineKey = ik]>>]
  ELSE [typ EXCEPT !.ModuleNamespace = ns, !.ModuleInlineKey = ik]

RECURSIVE TransferModuleInfo(_, _, _)
\* the loop over moduleElem.Elems and the two assignments that follow it
TransferModuleInfo(typ, ns, ik) ==
  IF typ.Elems # <<>>
  THEN [typ EXCEPT !.Elems = <<TransferModuleInfo(typ.Elems[1], ns, ik)>>]
  ELSE [typ EXCEPT !.ModuleNamespace = ns, !.ModuleInlineKey = ik]

\* the two docs joined with the type's doc first
DerefDocTypeFirst(valDoc, typDoc) ==
  IF valDoc # <<>> THEN typDoc \o DocSep \o valDoc ELSE typDoc

\* the doc dereference gives the loaded type
DerefDoc(valDoc, typDoc) == IF valDoc # <<>> THEN valDoc \o DocSep \o typDoc ELSE typDoc

\* dereference once the Storage has answered: typ is nil (<<>>) or the type
DerefLoaded(val, typ) ==
  IF typ = <<>> THEN [status |-> "err", val |-> EmptyValue]
  ELSE [status |-> "ok",
        val |-> [TransferModuleInfo(typ[1], val.ModuleNamespace, val.ModuleInlineKey)
                   EXCEPT !.Doc = DerefDoc(val.Doc, typ[1].Doc)]]

dereference(d, val) ==
  IF val.SameAs = <<>> THEN [status |-> "ok", val |-> val]
  ELSE LET parts == SplitN2(val.SameAs, "@")
       IN DerefLoaded(val, getTypeByFullName(d, parts[1],
                                             IF Len(parts) = 2 THEN parts[2] ELSE <<>>))

\* the value whose doc deepDereference merges a struct field's doc with: the
\* field's value, or its element when the value has one
UnderlyingTypeVal(v) == IF v.Elems # <<>> THEN v.Elems[1] ELSE v

\* the merge with the underlying value's doc before the field's
MergedUnderlyingFirst(sfDoc, underlyingDoc) ==
  IF sfDoc # <<>> THEN TrimSpace(underlyingDoc \o DocSep \o sfDoc) ELSE underlyingDoc

\* the doc deepDereference gives the underlying value of a struct field
MergedFieldDoc(sfDoc, underlyingDoc) ==
  IF sfDoc # <<>> THEN TrimSpace(sfDoc \o DocSep \o underlyingDoc) ELSE underlyingDoc

\* the body of deepDereference's loop after the field's value was dereferenced
MergeFieldDoc(sf, dv) ==
  LET doc == MergedFieldDoc(sf.Doc, UnderlyingTypeVal(dv).Doc)
  IN [Key |-> sf.Key,
      Value |-> IF dv.Elems # <<>>
                THEN [dv EXCEPT !.Elems = <<[dv.Elems[1] EXCEPT !.Doc = doc]>>]
                ELSE [dv EXCEPT !.Doc = doc],
      Doc |-> IF doc # <<>> THEN doc ELSE sf.Doc]

RECURSIVE deepDereference(_, _, _)
RECURSIVE DerefStructFields(_, _, _)

\* the end of deepDereference's loop: the merged field before the later ones
DerefRest(field, rest) ==
  IF rest.status # "ok" THEN rest
  ELSE [status |-> "ok", fields |-> <<field>> \o rest.fields]

\* one turn of deepDereference's loop, r the dereferenced value of the field
DerefField(d, sfs, r, depth) ==
  IF r.status # "ok" THEN [status |-> r.status, fields |-> <<>>]
  ELSE DerefRest(MergeFieldDoc(Head(sfs), r.val), DerefStructFields(d, Tail(sfs), depth))

\* deepDereference's loop over val.StructFields
DerefStructFields(d, sfs, depth) ==
  IF sfs = <<>> THEN [status |-> "ok", fields |-> <<>>]
  ELSE DerefField(d, sfs, deepDereference(d, Head(sfs).Value, depth + 1), depth)

\* deepDereference after val.Elems was dereferenced
DeepDerefElems(v, el) ==
  IF el.status # "ok" THEN [status |-> el.status, val |-> EmptyValue]
  ELSE [status |-> "ok", val |-> [v EXCEPT !.Elems = IF v.Elems # <<>> THEN <<el.val>> ELSE <<>>]]

\* deepDereference after val.MapKeys was dereferenced
DeepDerefKeys(d, v, mk, depth) ==
  IF mk.status # "ok" THEN [status |-> mk.status, val |-> EmptyValue]
  ELSE DeepDerefElems([v EXCEPT !.MapKeys = IF v.MapKeys # <<>> THEN <<mk.val>> ELSE <<>>],
                      IF v.Elems # <<>> THEN deepDereference(d, v.Elems[1], depth + 1)
                      ELSE [status |-> "ok", val |-> EmptyValue])

\* deepDereference after the loop over val.StructFields
DeepDerefFields(d, v, fs, depth) ==
  IF fs.status # "ok" THEN [status |-> fs.status, val |-> EmptyValue]
  ELSE DeepDerefKeys(d, [v EXCEPT !.StructFields = fs.fields],
                     IF v.MapKeys # <<>> THEN deepDereference(d, v.MapKeys[1], depth + 1)
                     ELSE [status |-> "ok", val |-> EmptyValue],
                     depth)

\* deepDereference after val was dereferenced
DeepDerefValue(d, r, depth) ==
  IF r.status # "ok" THEN [status |-> "err", val |-> EmptyValue]
  ELSE DeepDerefFields(d, r.val, DerefStructFields(d, r.val.StructFields, depth), depth)

deepDereference(d, val, depth) ==
  IF depth > MaxStack THEN [status |-> "overflow", val |-> EmptyValue]
  ELSE DeepDerefValue(d, dereference(d, val), depth)

-----------------------------------------------------------------------------
\* ---- the path traversal engine ----

\* what one TraverseType call did, beside what it returns:
\*   lookups         per module step, the value's namespace and inline key, the
\*                   segment, and the ID passed to GetTypesByCaddyModuleID
\*   seen, kinds     the type names and the kinds of the dereferenced values
\*                   it switched on
\*   fields          per struct step, the segment, the field that matched and
\*                   the doc of the value the step went on with
\*   fieldSteps, moduleSteps, containerSteps   the steps it took, by kind
\*   dangling        whether a dereference found no stored type
\*   errPrefix, errKind   the path prefix its error reports, and the failure
NoTrace ==
  [lookups |-> <<>>, seen |-> <<>>, kinds |-> <<>>, fields |-> <<>>, fieldSteps |-> 0, moduleSteps |-> 0,
   containerSteps |-> 0, dangling |-> FALSE, errPrefix |-> <<>>, errKind |-> ""]

TraverseResult(status, val, nearest, tr) ==
  [status |-> status, val |-> val, nearest |-> nearest, trace |-> tr]

\* a lookup by the bare segment, whatever the namespace
BareModuleID(ns, part) == part

\* the Caddy module ID a segment stands for at a module value
CaddyModuleID(ns, part) ==
  IF ns # <<>> /\ ns[1] # <<>> THEN ns[1] \o <<".">> \o part ELSE part

\* a struct step that appends the field's doc at every segment
FieldTargetAlways(sf, final) ==
  [sf.Value EXCEPT !.Doc = (IF sf.Value.Doc # <<>> THEN sf.Value.Doc \o DocSep ELSE <<>>)
                             \o sf.Doc]

\* a struct step's new value: the field's value, with the field's doc appended
\* when the segment is the last one
FieldTarget(sf, final) ==
  IF final
  THEN [sf.Value EXCEPT !.Doc = (IF sf.Value.Doc # <<>> THEN sf.Value.Doc \o DocSep ELSE <<>>)
                                  \o sf.Doc]
  ELSE sf.Value

\* a step that goes on to the segment after the next
AfterSegmentSkips(i) == i + 2

\* the index the loop continues with after a struct-field or module step (i++)
AfterSegment(i) == i + 1

\* a container step that goes on to the next segment
AfterContainerConsumes(i) == i + 1

\* the index the loop continues with after a map or array step (i-- then i++)
AfterContainer(i) == i

\* the value TraverseType returns as the nearest type after a step
NearestAfter(val, nearestType) == IF val.TypeName # <<>> THEN val ELSE nearestType

\* the path up to and with the segment that failed
FailedPrefix(parts, i) == JoinSlash(SubSeq(parts, 1, i))

\* strings.Join(parts[:i], "/"), i counted from 1 here: the segments before
\* segment i
ConsumedPrefix(parts, i) == JoinSlash(SubSeq(parts, 1, i - 1))

\* the first field of a struct value with the key part, 0 if there is none
FirstField(val, part) ==
  IF \E j \in 1..Len(val.StructFields) : val.StructFields[j].Key = part
  THEN CHOOSE j \in 1..Len(val.StructFields) :
         /\ val.StructFields[j].Key = part
         /\ \A j2 \in 1..(j-1) : val.StructFields[j2].Key # part
  ELSE 0

RECURSIVE TraverseLoop(_, _, _, _, _, _, _)

\* the end of an iteration: the nearest type is updated, the loop goes on
TraverseOn(d, names, parts, i, next, nearestType, tr) ==
  TraverseLoop(d, names, parts, i, next, NearestAfter(next, nearestType), tr)

\* case Struct, j the index of the field found (0: none)
StructStep(d, names, parts, i, val, nearestType, tr, j) ==
  IF j = 0
  THEN TraverseResult("err", EmptyValue, EmptyValue,
         [tr EXCEPT !.errKind = "field not found",
                    !.errPrefix = ConsumedPrefix(parts, i)])
  ELSE TraverseOn(d, names, parts, AfterSegment(i),
                  FieldTarget(val.StructFields[j], i = Len(parts)),
                  nearestType,
                  [tr EXCEPT !.fieldSteps = @ + 1,
                             !.fields = Append(@, [segment |-> i, field |-> val.StructFields[j],
                                                   doc |-> FieldTarget(val.StructFields[j],
                                                                       i = Len(parts)).Doc])])

\* the inline key of a module value, whatever segment it is reached at
AlwaysCarried(val, final) == val.ModuleInlineKey

\* moduleInlineKey: the inline key of the module value when the segment is
\* the last one, nil otherwise
CarriedInlineKey(val, final) == IF final THEN val.ModuleInlineKey ELSE <<>>

\* case Module, ModuleMap, after the Storage returned vals
ModuleLookup(d, names, parts, i, val, nearestType, tr, vals) ==
  IF vals = <<>>
  THEN \* vals[0] of an empty slice
       TraverseResult("panic", EmptyValue, EmptyValue, [tr EXCEPT !.errKind = "index out of range"])
  ELSE TraverseOn(d, names, parts, AfterSegment(i),
         [vals[1] EXCEPT !.ModuleInlineKey = CarriedInlineKey(val, i = Len(parts))],
         nearestType, tr)

\* case Module, ModuleMap
ModuleStep(d, names, parts, i, val, nearestType, tr) ==
  LET caddyModuleID == CaddyModuleID(val.ModuleNamespace, parts[i])
  IN ModuleLookup(d, names, parts, i, val, nearestType,
       [tr EXCEPT !.lookups = Append(@, [ns |-> val.ModuleNamespace,
                                         inlineKey |-> val.ModuleInlineKey,
                                         part |-> parts[i], final |-> (i = Len(parts)),
                                         id |-> caddyModuleID]),
                  !.moduleSteps = @ + 1],
       GetTypesByCaddyModuleID(d, names, caddyModuleID))

\* case Map, Array
ContainerStep(d, names, parts, i, val, nearestType, tr) ==
  IF val.Elems = <<>>
  THEN \* val is nil after val = val.Elems, and val.TypeName is read
       TraverseResult("panic", EmptyValue, EmptyValue, [tr EXCEPT !.errKind = "nil dereference"])
  ELSE TraverseOn(d, names, parts, AfterContainer(i), val.Elems[1], nearestType,
                  [tr EXCEPT !.containerSteps = @ + 1])

\* a traversal that stops at a value it cannot go into, and returns it
ReturnsLeaf(parts, i, val, nearestType, tr) == TraverseResult("ok", val, nearestType, tr)

\* the default case: the value is of no kind that can be gone into
Unsupported(parts, i, val, nearestType, tr) ==
  TraverseResult("err", EmptyValue, EmptyValue,
    [tr EXCEPT !.errKind = "unsupported", !.errPrefix = ConsumedPrefix(parts, i)])

\* the type switch on the dereferenced value
TypeSwitch(d, names, parts, i, val, nearestType, tr) ==
  CASE val.Type = Struct ->
         StructStep(d, names, parts, i, val, nearestType, tr, FirstField(val, parts[i]))
    [] val.Type \in {Module, ModuleMap} -> ModuleStep(d, names, parts, i, val, nearestType, tr)
    [] val.Type \in {Map, Array} -> ContainerStep(d, names, parts, i, val, nearestType, tr)
    [] OTHER -> Unsupported(parts, i, val, nearestType, tr)

\* one iteration, r what dereference returned for val
TraverseStep(d, names, parts, i, r, nearestType, tr) ==
  IF r.status # "ok"
  THEN \* val is nil by now, and the error message reads val.SameAs
       TraverseResult("panic", EmptyValue, EmptyValue,
                      [tr EXCEPT !.errKind = "nil dereference", !.dangling = TRUE])
  ELSE TypeSwitch(d, names, parts, i, r.val, nearestType,
                  [tr EXCEPT !.seen = Append(@, r.val.TypeName),
                             !.kinds = Append(@, r.val.Type)])

\* the for loop of TraverseType, from segment i (1-based) on
TraverseLoop(d, names, parts, i, val0, nearestType, tr) ==
  IF i > Len(parts) THEN TraverseResult("ok", val0, nearestType, tr)
  ELSE TraverseStep(d, names, parts, i, dereference(d, val0), nearestType, tr)

TraverseType(d, names, path, start) ==
  IF start.Type = "" \/ start.TypeName = <<>>
  THEN TraverseResult("err", EmptyValue, EmptyValue, [NoTrace EXCEPT !.errKind = "no start type"])
  ELSE IF path = <<>> THEN TraverseResult("ok", start, start, NoTrace)
  ELSE TraverseLoop(d, names, ConfigPathParts(path), 1, start, start, NoTrace)

-----------------------------------------------------------------------------
\* ---- the representation builder ----
\* A build threads the builder's view of the Driver through its calls:
\*   disc     Driver.discoveredTypes
\*   db       the Storage's types
\*   stores   how often StoreType was called, per key
\*   commits  how often a type was put into discoveredTypes after expansion
\*   ver      the module version of the workspace
\*   failing  the keys for which the Storage's StoreType returns an error

Count(f, key) == IF key \in DOMAIN f THEN f[key] ELSE 0
Incr(f, key) == [k2 \in DOMAIN f \cup {key} |-> IF k2 = key THEN Count(f, key) + 1 ELSE f[k2]]
Put(f, key, v) == [k2 \in DOMAIN f \cup {key} |-> IF k2 = key THEN v ELSE f[k2]]

BuildResult(status, rep, st) == [status |-> status, rep |-> rep, st |-> st]

BasicKind(b) ==
  CASE b = "bool" -> Bool
    [] b \in {"int", "int8", "int16", "int32", "int64"} -> IntKind
    [] b \in {"uint", "uint8", "uint16", "uint32", "uint64", "uintptr"} -> Uint
    [] b \in {"float32", "float64"} -> Float
    [] b \in {"complex64", "complex128"} -> Complex
    [] b = "string" -> String
    [] OTHER -> ""

getDepVersion(packagePath, ver) == IF packagePath \in StandardPackages THEN <<>> ELSE ver

\* types.Named.String()
TypeString(decl) == decl.pkg \o <<".">> \o decl.name

fullyQualifiedTypeName(decl) ==
  IF decl.pkg # <<>> /\ decl.name # <<>> THEN decl.pkg \o <<".">> \o decl.name
  ELSE TypeString(decl)

\* the key of discoveredTypes, and the SameAs of a fresh placeholder
SameAsKey(decl, typeVersion) ==
  IF typeVersion # <<>> THEN TypeString(decl) \o <<"@">> \o typeVersion ELSE TypeString(decl)

\* structFieldDocs[field.Name()]
FieldGodoc(decl, fieldName) ==
  IF fieldName \in DOMAIN decl.fieldDocs THEN decl.fieldDocs[fieldName] ELSE <<>>

\* the module information of a field's caddy tag, put on the field's
\* representation or, when it has elements, on its element
AttachModuleInfo(fieldRep, ctf) ==
  LET set(v) == [v EXCEPT
                   !.ModuleNamespace = IF ctf.namespace # <<>> THEN ctf.namespace ELSE @,
                   !.ModuleInlineKey = IF ctf.inline_key # <<>> THEN ctf.inline_key ELSE @]
  IN IF fieldRep.Elems # <<>>
     THEN [fieldRep EXCEPT !.Elems = <<set(fieldRep.Elems[1])>>]
     ELSE set(fieldRep)

\* whether the named-struct loop skips a field before building it
SkipsNamedField(field) ==
  LET jn == jsonNameFromTag(field.json) IN
  \/ ~field.exported
  \/ ~jn.ok
  \/ (jn.name = <<>> /\ ~field.embedded)

\* whether the anonymous-struct loop skips a field before building it
SkipsAnonField(field) == ~jsonNameFromTag(field.json).ok

\* a commit that stores the type without remembering it in discoveredTypes
CommitForgets(st, sameAs, key, rep) ==
  LET st1 == [st EXCEPT !.commits = Incr(@, sameAs), !.stores = Incr(@, key)]
  IN IF key \in st.failing
     THEN [ok |-> FALSE, st |-> st1]
     ELSE [ok |-> TRUE, st |-> [st1 EXCEPT !.db = StoreType(@, key[1], key[2], key[3], rep)]]

\* where a new type is remembered: discoveredTypes first, then the Storage
Commit(st, sameAs, key, rep) ==
  LET st1 == [st EXCEPT !.disc = Put(@, sameAs, rep),
                        !.commits = Incr(@, sameAs),
                        !.stores = Incr(@, key)]
  IN IF key \in st.failing
     THEN [ok |-> FALSE, st |-> st1]
     ELSE [ok |-> TRUE, st |-> [st1 EXCEPT !.db = StoreType(@, key[1], key[2], key[3], rep)]]

RECURSIVE buildRepresentation(_, _, _)
RECURSIVE BuildNamedFields(_, _, _, _, _)
RECURSIVE BuildAnonFields(_, _, _, _)

\* an embedded field of a named struct, once it was dereferenced
NamedEmbedded(decl, fields, acc, st, depth, embedded) ==
  IF embedded.status # "ok" THEN [status |-> "err", fields |-> acc, st |-> st]
  ELSE BuildNamedFields(decl, Tail(fields),
         IF embedded.val.Type = Struct THEN acc \o embedded.val.StructFields ELSE acc,
         st, depth)

\* a field of a named struct, once the module information is on its value
NamedFieldRep(decl, fields, acc, st, depth, fieldRep) ==
  IF Head(fields).embedded
  THEN NamedEmbedded(decl, fields, acc, st, depth, dereference(st.db, fieldRep))
  ELSE BuildNamedFields(decl, Tail(fields),
         Append(acc, StructField(jsonNameFromTag(Head(fields).json).name, fieldRep,
                                 FieldGodoc(decl, Head(fields).name))),
         st, depth)

\* a field of a named struct, once its type was built
NamedFieldBuilt(decl, fields, acc, depth, fr) ==
  IF fr.status # "ok" THEN [status |-> fr.status, fields |-> acc, st |-> fr.st]
  ELSE IF Head(fields).caddy.malformed THEN [status |-> "err", fields |-> acc, st |-> fr.st]
  ELSE NamedFieldRep(decl, fields, acc, fr.st, depth,
                     AttachModuleInfo(fr.rep, Head(fields).caddy))

\* the field loop of a named struct type
BuildNamedFields(decl, fields, acc, st, depth) ==
  IF fields = <<>> THEN [status |-> "ok", fields |-> acc, st |-> st]
  ELSE IF SkipsNamedField(Head(fields)) THEN BuildNamedFields(decl, Tail(fields), acc, st, depth)
  ELSE NamedFieldBuilt(decl, fields, acc, depth,
                       buildRepresentation(Head(fields).typ, st, depth + 1))

\* a field of an anonymous struct, once the module information is on its value
AnonFieldRep(fields, acc, st, depth, fieldRep) ==
  IF Head(fields).embedded
  THEN BuildAnonFields(Tail(fields),
         IF fieldRep.Type = Struct THEN acc \o fieldRep.StructFields ELSE acc, st, depth)
  ELSE BuildAnonFields(Tail(fields),
         Append(acc, StructField(jsonNameFromTag(Head(fields).json).name, fieldRep, <<>>)),
         st, depth)

\* a field of an anonymous struct, once its type was built
AnonFieldBuilt(fields, acc, depth, fr) ==
  IF fr.status # "ok" THEN [status |-> fr.status, fields |-> acc, st |-> fr.st]
  ELSE IF Head(fields).caddy.malformed THEN [status |-> "err", fields |-> acc, st |-> fr.st]
  ELSE AnonFieldRep(fields, acc, fr.st, depth, AttachModuleInfo(fr.rep, Head(fields).caddy))

\* the field loop of an anonymous struct type
BuildAnonFields(fields, acc, st, depth) ==
  IF fields = <<>> THEN [status |-> "ok", fields |-> acc, st |-> st]
  ELSE IF SkipsAnonField(Head(fields)) THEN BuildAnonFields(Tail(fields), acc, st, depth)
  ELSE AnonFieldBuilt(fields, acc, depth, buildRepresentation(Head(fields).typ, st, depth + 1))

\* the end of the named branch: the type was remembered and stored, or not
NamedCommitted(sameAs, c) ==
  IF c.ok THEN BuildResult("ok", Placeholder(sameAs), c.st)
  ELSE BuildResult("err", EmptyValue, c.st)

\* the named branch once the underlying type was built
NamedBuilt(decl, sameAs, key, r) ==
  IF r.status # "ok" THEN BuildResult(r.status, EmptyValue, r.st)
  ELSE NamedCommitted(sameAs,
         Commit(r.st, sameAs, key,
                [r.rep EXCEPT !.Doc = decl.doc, !.TypeName = fullyQualifiedTypeName(decl)]))

\* the representation of a named struct type, after its field loop
NamedStruct(fs) ==
  BuildResult(fs.status, [Leaf(Struct) EXCEPT !.StructFields = fs.fields], fs.st)

\* a builder to which no type is the marker of a module
NoMarker(decl) == FALSE

\* "a json.RawMessage type represents a module!"
IsRawMessage(decl) == decl.pkg = JSONPackage /\ decl.name = <<"RawMessage">>

\* case *types.Named
BuildNamed(decl, st, depth) ==
  LET typeVersion == getDepVersion(decl.pkg, st.ver)
      sameAs == SameAsKey(decl, typeVersion)
      discoveredType == GetTypeByName(st.db, decl.pkg, decl.name, typeVersion)
  IN
  IF sameAs \in DOMAIN st.disc THEN BuildResult("ok", Placeholder(sameAs), st)
  ELSE IF discoveredType # <<>>
  THEN BuildResult("ok", Placeholder(discoveredType[1].TypeName),
                   [st EXCEPT !.disc = Put(@, sameAs, discoveredType[1])])
  ELSE IF IsRawMessage(decl)
  THEN BuildResult("ok", Leaf(Module), st)
  ELSE NamedBuilt(decl, sameAs, TypeKey(decl.pkg, decl.name, typeVersion),
         IF decl.underlying.k = "struct"
         THEN NamedStruct(BuildNamedFields(decl, decl.underlying.fields, <<>>, st, depth))
         ELSE buildRepresentation(decl.underlying, st, depth + 1))

\* case *types.Struct, after the field loop
AnonStruct(fs) ==
  IF fs.status # "ok" THEN BuildResult(fs.status, EmptyValue, fs.st)
  ELSE BuildResult("ok", [Leaf(Struct) EXCEPT !.StructFields = fs.fields], fs.st)

\* case *types.Slice, after the element type was built
SliceOf(er) ==
  IF er.status # "ok" THEN BuildResult(er.status, EmptyValue, er.st)
  ELSE BuildResult("ok", [Leaf(Array) EXCEPT !.Elems = <<er.rep>>], er.st)

\* a map case without the collapse to module_map
MapOfPlain(kr, er) ==
  IF er.status # "ok" THEN BuildResult(er.status, EmptyValue, er.st)
  ELSE BuildResult("ok", [Leaf(Map) EXCEPT !.MapKeys = <<kr.rep>>, !.Elems = <<er.rep>>], er.st)

\* case *types.Map, after the key and element types were built
MapOf(kr, er) ==
  IF er.status # "ok" THEN BuildResult(er.status, EmptyValue, er.st)
  ELSE IF kr.rep.Type = String /\ er.rep.Type = Module
       THEN BuildResult("ok", Leaf(ModuleMap), er.st)
       ELSE BuildResult("ok", [Leaf(Map) EXCEPT !.MapKeys = <<kr.rep>>,
                                                !.Elems = <<er.rep>>], er.st)

\* case *types.Map, after the key type was built
MapKeyed(typ, kr, depth) ==
  IF kr.status # "ok" THEN BuildResult(kr.status, EmptyValue, kr.st)
  ELSE MapOf(kr, buildRepresentation(typ.elem, kr.st, depth + 1))

buildRepresentation(typ, st, depth) ==
  IF depth > MaxStack THEN BuildResult("overflow", EmptyValue, st)
  ELSE
  CASE typ.k = "interface" -> BuildResult("ok", EmptyValue, st)
    [] typ.k = "pointer" -> buildRepresentation(typ.elem, st, depth + 1)
    [] typ.k = "basic" ->
         IF BasicKind(typ.b) # "" THEN BuildResult("ok", Leaf(BasicKind(typ.b)), st)
         ELSE BuildResult("err", EmptyValue, st)
    [] typ.k = "named" -> BuildNamed(Decls[typ.n], st, depth)
    [] typ.k = "struct" -> AnonStruct(BuildAnonFields(typ.fields, <<>>, st, depth))
    [] typ.k = "slice" -> SliceOf(buildRepresentation(typ.elem, st, depth + 1))
    [] typ.k = "map" -> MapKeyed(typ, buildRepresentation(typ.key, st, depth + 1), depth)
    [] OTHER -> BuildResult("err", EmptyValue, st)

-----------------------------------------------------------------------------
\* ---- the registration scan (findCaddyModuleIdents) ----
\* A file is the sequence of the AST nodes ast.Inspect hands to the callback,
\* in the order it visits them.  A node is
\*   a call:    ident = the type findModuleRegistration returns ("" for nil)
\*   a func:    ident = the receiver findModuleImpl returns ("" for nil)
\*   a return:  nres results, compLit whether the result is a composite
\*              literal, elts its elements
\* and err says that findModuleRegistration / findModuleImpl fails on it.

CallNode(ident) ==
  [n |-> "call", ident |-> ident, err |-> FALSE, nres |-> 0, compLit |-> FALSE, elts |-> <<>>]
FuncNode(ident) ==
  [n |-> "func", ident |-> ident, err |-> FALSE, nres |-> 0, compLit |-> FALSE, elts |-> <<>>]
ReturnNode(nres, compLit, elts) ==
  [n |-> "return", ident |-> "", err |-> FALSE, nres |-> nres, compLit |-> compLit, elts |-> elts]

\* an element of the composite literal: key: value, value a basic literal or not
KeyValue(key, lit, value) == [kv |-> TRUE, key |-> key, lit |-> lit, value |-> value]
Positional == [kv |-> FALSE, key |-> "", lit |-> FALSE, value |-> <<>>]

Quote == "\""
Literal(text) == <<Quote>> \o text \o <<Quote>>

\* the maps and locals of one findCaddyModuleIdents call
NewScan ==
  [caddyModRegs |-> {}, caddyModImpls |-> {}, caddyModIDs |-> <<>>,
   currentCaddyModuleFunc |-> "", inspectErr |-> FALSE]

\* the first element with key ID decides a return statement: "none" when
\* there is none, "computed" when its value is no basic literal, else "literal"
RECURSIVE FindID(_)
FindID(elts) ==
  IF elts = <<>> THEN [kind |-> "none", name |-> <<>>]
  ELSE IF ~Head(elts).kv \/ Head(elts).key # "ID" THEN FindID(Tail(elts))
  ELSE IF ~Head(elts).lit THEN [kind |-> "computed", name |-> <<>>]
  ELSE [kind |-> "literal", name |-> Trim(Head(elts).value, {Quote})]

\* a scan that fails on a CaddyModule method whose ID is no static literal
FailComputedID(s) == [s EXCEPT !.inspectErr = TRUE]

\* what the scan does with a CaddyModule method whose ID is no static literal
SkipComputedID(s) ==
  [s EXCEPT !.caddyModRegs = @ \ {s.currentCaddyModuleFunc},
            !.caddyModImpls = @ \ {s.currentCaddyModuleFunc},
            !.currentCaddyModuleFunc = ""]

\* the callback of ast.Inspect on one node
InspectNode(s, node) ==
  CASE node.n = "call" ->
         IF node.err THEN [s EXCEPT !.inspectErr = TRUE]
         ELSE IF node.ident = "" THEN s
         ELSE [s EXCEPT !.caddyModRegs = @ \cup {node.ident}]
    [] node.n = "func" ->
         IF node.err THEN [s EXCEPT !.inspectErr = TRUE]
         ELSE IF node.ident = "" THEN s
         ELSE [s EXCEPT !.caddyModImpls = @ \cup {node.ident},
                        !.currentCaddyModuleFunc = node.ident]
    [] node.n = "return" ->
         IF s.currentCaddyModuleFunc = "" THEN s
         ELSE IF node.nres # 1 THEN [s EXCEPT !.inspectErr = TRUE]
         ELSE IF ~node.compLit THEN [s EXCEPT !.inspectErr = TRUE]
         ELSE LET id == FindID(node.elts) IN
              IF id.kind = "computed" THEN SkipComputedID(s)
              ELSE IF id.name = <<>> THEN [s EXCEPT !.inspectErr = TRUE]
              ELSE [s EXCEPT !.caddyModIDs = Put(@, s.currentCaddyModuleFunc, id.name),
                             !.currentCaddyModuleFunc = ""]
    [] OTHER -> s

RECURSIVE InspectFile(_, _)
InspectFile(s, nodes) ==
  IF nodes = <<>> THEN s ELSE InspectFile(InspectNode(s, Head(nodes)), Tail(nodes))

\* checks that look at the registered types only
ScanOutcomeRegsOnly(s) ==
  IF \E key \in s.caddyModRegs :
        key \notin s.caddyModImpls \/ key \notin DOMAIN s.caddyModIDs
  THEN [status |-> "err", mods |-> <<>>]
  ELSE [status |-> "ok", mods |-> [t \in s.caddyModRegs |-> s.caddyModIDs[t]]]

\* the checks after the files were inspected, and the map returned
ScanOutcome(s) ==
  IF \/ \E key \in s.caddyModRegs :
          key \notin s.caddyModImpls \/ key \notin DOMAIN s.caddyModIDs
     \/ \E key \in s.caddyModImpls :
          key \notin s.caddyModRegs \/ key \notin DOMAIN s.caddyModIDs
  THEN [status |-> "err", mods |-> <<>>]
  ELSE [status |-> "ok", mods |-> [t \in s.caddyModRegs |-> s.caddyModIDs[t]]]

RECURSIVE InspectFiles(_, _)
\* the loop over pkg.Syntax: currentCaddyModuleFunc is a local of one file,
\* and an error of a file ends the scan after that file
InspectFiles(s, files) ==
  IF files = <<>> THEN ScanOutcome(s)
  ELSE LET s1 == InspectFile([s EXCEPT !.currentCaddyModuleFunc = ""], Head(files)) IN
       IF s1.inspectErr THEN [status |-> "err", mods |-> <<>>]
       ELSE InspectFiles(s1, Tail(files))

findCaddyModuleIdents(files) == InspectFiles(NewScan, files)

-----------------------------------------------------------------------------
\* ---- the packages of the workspace ----

HTTPAppID == <<"http">>
FileServerID == <<"http", ".", "handlers", ".", "file_server">>

\* the files of a package, as the registration scan sees them
PackageSyntax(packagePath) ==
  IF packagePath = PluginPackage
  THEN << <<CallNode("App"), CallNode(""),
            FuncNode("App"),
            ReturnNode(1, TRUE, <<KeyValue("ID", TRUE, Literal(HTTPAppID)),
                                  KeyValue("New", FALSE, <<>>)>>),
            FuncNode(""), ReturnNode(1, FALSE, <<>>)>>,
          <<CallNode("FileServer"),
            FuncNode("FileServer"),
            ReturnNode(1, TRUE, <<KeyValue("ID", TRUE, Literal(FileServerID)),
                                  KeyValue("New", FALSE, <<>>)>>)>> >>
  ELSE IF packagePath = CaddyCorePackage
  THEN << <<CallNode("adapterModule"),
            FuncNode("adapterModule"),
            ReturnNode(1, TRUE, <<KeyValue("ID", FALSE, <<>>),
                                  KeyValue("New", FALSE, <<>>)>>)>> >>
  ELSE <<>>

\* packages.Visit: the packages of a pattern's import graph, imports first
VisitOrder(packagePattern) ==
  IF packagePattern = PluginPackage THEN <<CaddyCorePackage, PluginPackage>>
  ELSE <<packagePattern>>

\* pkg.Types.Scope().Lookup(typeName)
ScopeLookup(packagePath, typeName) ==
  {id \in TypeIds : Decls[id].pkg = packagePath /\ Decls[id].name = typeName}

\* the orders in which a Go map with the keys S may be ranged over
Orders(S) ==
  {sq \in [1..Cardinality(S) -> S] : \A i, j \in 1..Cardinality(S) : sq[i] = sq[j] => i = j}

-----------------------------------------------------------------------------
\* ---- the Driver ----

NoResult ==
  [op |-> "", typeId |-> "", path |-> <<>>, moduleID |-> <<>>, status |-> "",
   rep |-> EmptyValue, exact |-> EmptyValue, nearest |-> EmptyValue, vals |-> <<>>,
   start |-> EmptyValue,
   trace |-> NoTrace, wasDiscovered |-> FALSE, wasStored |-> FALSE]

\* a findCaddyModuleIdents call in progress: the files, the file and node the
\* inspection is at, the maps and locals, and what the call returned
ScanOf(files) ==
  [files |-> files, file |-> 1, node |-> 1, s |-> NewScan, outcome |-> "", mods |-> <<>>]

\* the key of discoveredTypes for a declared type, in this workspace
IdentityKey(id) == SameAsKey(Decls[id], getDepVersion(Decls[id].pkg, ModuleVersion))

\* the package, name and version a declared type is stored under
StorageKey(id) ==
  TypeKey(Decls[id].pkg, Decls[id].name, getDepVersion(Decls[id].pkg, ModuleVersion))

\* the goroutines that call the Driver at the same time
Goroutines == {"g1", "g2"}

\* a goroutine's buildRepresentation call on a named type: where it is (pc),
\* the type, whether the Storage had it, the representation it holds and the
\* Value it returns
IdleBuilder == [pc |-> "idle", typ |-> "", hit |-> FALSE, rep |-> EmptyValue, out |-> EmptyValue]

\* Driver.mu: the goroutine that holds it for writing, and those that hold
\* it for reading
Unlocked == [writer |-> "", readers |-> {}]

\* the last getPackages call of a workspace: its key, how it ended, whether
\* a call with this key had succeeded before, and what the call ran
NoCall == [pkgKey |-> <<>>, status |-> "", succeededBefore |-> FALSE,
           ranGoGet |-> FALSE, ranLoad |-> FALSE]

\* a workspace: whether it is open, the getPackages calls made on it, its
\* three maps, how often packages.Load ran in it per package key, the keys
\* its getPackages has succeeded for, and its last call
NoWorkspace ==
  [open |-> FALSE, calls |-> 0, goGets |-> {}, packagePatterns |-> <<>>,
   parsedPackages |-> {}, loadRuns |-> <<>>, succeeded |-> {}, last |-> NoCall]

\* the keys whose StoreType the Storage may refuse
FailingChoices == {{}, {TypeKey(PluginPackage, <<"Base">>, ModuleVersion)}}

Session(failing) ==
  [disc |-> discoveredTypes, db |-> db, stores |-> storeCalls, commits |-> commits,
   ver |-> ModuleVersion, failing |-> failing]

Crashes(status) == status \in {"panic", "overflow"}

\* the operations that only read; the caller takes what one returned before
\* the next call is made
Queries == {"LoadTypeByPath", "TraverseType", "LoadTypesByModuleID"}
Idle == ~crashed /\ result.op \notin Queries

Init ==
  /\ db = <<>>
  /\ moduleNames = <<>>
  /\ discoveredTypes = <<>>
  /\ storeCalls = <<>>
  /\ commits = <<>>
  /\ crashed = FALSE
  /\ result = NoResult
  /\ scan = ScanOf(<<>>)
  /\ builders = [g \in Goroutines |-> IdleBuilder]
  /\ mu = Unlocked
  /\ workspaces = [g \in Goroutines |-> NoWorkspace]

\* New(database): a Driver over the same Storage, after the process was
\* started again
New ==
  /\ discoveredTypes' = <<>>
  /\ storeCalls' = <<>>
  /\ commits' = <<>>
  /\ crashed' = FALSE
  /\ result' = [NoResult EXCEPT !.op = "New"]
  /\ UNCHANGED <<db, moduleNames, scan, concurrent>>

\* the (package, type name) pairs AddType is called with
AddTypeTargets ==
  {<<CaddyCorePackage, <<"Config">>>>, <<PluginPackage, <<"Node">>>>,
   <<PluginPackage, <<"Bad">>>>, <<PluginPackage, <<"Opts">>>>,
   <<JSONPackage, <<"RawMessage">>>>, <<PluginPackage, <<"Missing">>>>,
   <<PluginPackage, <<"Dup">>>>}

\* what AddType does once ws.getPackages has loaded the package
AddTypeOutcome(packageName, typeName, failing) ==
  LET found == ScopeLookup(packageName, typeName) IN
  IF found = {}
  THEN [id |-> "", r |-> BuildResult("err", EmptyValue, Session(failing)),
        wasDiscovered |-> FALSE, wasStored |-> FALSE]
  ELSE LET id == CHOOSE id \in found : TRUE
           decl == Decls[id]
           ver == getDepVersion(decl.pkg, ModuleVersion)
       IN [id |-> id, r |-> buildRepresentation(TNamed(id), Session(failing), 0),
           wasDiscovered |-> (SameAsKey(decl, ver) \in DOMAIN discoveredTypes),
           wasStored |-> (GetTypeByName(db, decl.pkg, decl.name, ver) # <<>>)]

AddType(packageName, typeName, failing) ==
  /\ Idle
  /\ \E o \in {AddTypeOutcome(packageName, typeName, failing)} :
       /\ db' = o.r.st.db
       /\ discoveredTypes' = o.r.st.disc
       /\ storeCalls' = o.r.st.stores
       /\ commits' = o.r.st.commits
       /\ crashed' = Crashes(o.r.status)
       /\ result' = [NoResult EXCEPT
            !.op = "AddType", !.typeId = o.id, !.status = o.r.status, !.rep = o.r.rep,
            !.wasDiscovered = o.wasDiscovered, !.wasStored = o.wasStored]
  /\ UNCHANGED <<moduleNames, scan, concurrent>>

RECURSIVE LoadModules(_, _, _, _, _)

\* one turn of loadModulesFromSinglePackage's loop, r the built representation
LoadModule(packagePath, mods, order, ver, names, r) ==
  IF r.status # "ok" THEN [status |-> r.status, st |-> r.st, names |-> names]
  ELSE LoadModules(packagePath, mods, Tail(order), r.st,
         SetCaddyModuleName(names,
           TypeKey(packagePath, <<Head(order)>>, getDepVersion(packagePath, ver)),
           mods[Head(order)]))

\* the loop of loadModulesFromSinglePackage over caddyModuleIdents, in the
\* order the map is ranged over
LoadModules(packagePath, mods, order, st, names) ==
  IF order = <<>> THEN [status |-> "ok", st |-> st, names |-> names]
  ELSE LoadModule(packagePath, mods, order, st.ver, names,
                  buildRepresentation(TNamed(CHOOSE id \in TypeIds : Decls[id].name = <<Head(order)>>),
                                      st, 0))

RECURSIVE LoadPackages(_, _, _, _)

\* the visit of one package, after its modules were loaded
PackageLoaded(pkgs, order, r) ==
  IF r.status # "ok" THEN r ELSE LoadPackages(Tail(pkgs), order, r.st, r.names)

\* loadModulesFromSinglePackage after findCaddyModuleIdents returned
PackageScanned(pkgs, order, st, names, scanned) ==
  IF scanned.status # "ok" THEN [status |-> "err", st |-> st, names |-> names]
  ELSE PackageLoaded(pkgs, order,
         LoadModules(Head(pkgs), scanned.mods,
                     SelectSeq(order, LAMBDA t : t \in DOMAIN scanned.mods), st, names))

\* packages.Visit over the import graph; the first error ends the loading
LoadPackages(pkgs, order, st, names) ==
  IF pkgs = <<>> THEN [status |-> "ok", st |-> st, names |-> names]
  ELSE PackageScanned(pkgs, order, st, names, findCaddyModuleIdents(PackageSyntax(Head(pkgs))))

\* every type a package of the pattern registers
RegisteredTypes(packagePattern) ==
  UNION {LET scanned == findCaddyModuleIdents(PackageSyntax(VisitOrder(packagePattern)[i]))
         IN IF scanned.status = "ok" THEN DOMAIN scanned.mods ELSE {}
         : i \in 1..Len(VisitOrder(packagePattern))}

LoadModulesFromImportingPackage(packagePattern, order, failing) ==
  /\ Idle
  /\ \E r \in {LoadPackages(VisitOrder(packagePattern), order, Session(failing), moduleNames)} :
     /\ db' = r.st.db
     /\ discoveredTypes' = r.st.disc
     /\ storeCalls' = r.st.stores
     /\ commits' = r.st.commits
     /\ moduleNames' = r.names
     /\ crashed' = Crashes(r.status)
     /\ result' = [NoResult EXCEPT !.op = "LoadModulesFromImportingPackage",
                                   !.status = r.status]
  /\ UNCHANGED <<scan, concurrent>>

Paths ==
  {<<>>,
   <<"admin">>, <<"admin", "/", "listen">>, <<"admin", "/", "listen", "/", "x">>,
   <<"items">>, <<"items", "/", "name">>,
   <<"apps", "/", "http">>, <<"apps", "/", "http", "/", "servers", "/", "hide">>,
   <<"handler", "/", "file_server">>, <<"handler", "/", "file_server", "/", "root">>,
   <<"handler", "/", "nope">>, <<"nope">>, <<"admin", "/", "nope">>, <<"/", "admin", "/">>,
   <<"/">>, <<"admin", "/", "/", "listen">>, <<"admin", "/", "any", "/", "x">>}

Versions == {<<>>, ModuleVersion}

\* what LoadTypeByPath returns when it fails
PathFailed(configPath, status, start, tr) ==
  [NoResult EXCEPT !.op = "LoadTypeByPath", !.path = configPath, !.start = start,
                   !.status = status, !.trace = tr]

\* LoadTypeByPath after deepDereference
PathDereferenced(configPath, start, t, dd) ==
  IF dd.status # "ok"
  THEN PathFailed(configPath, dd.status, start,
                  [t.trace EXCEPT !.dangling = (dd.status = "err")])
  ELSE [NoResult EXCEPT !.op = "LoadTypeByPath", !.path = configPath,
          !.start = start, !.status = "ok", !.trace = t.trace,
          !.rep = dd.val, !.exact = t.val, !.nearest = t.nearest]

\* LoadTypeByPath after TraverseType
PathTraversed(configPath, start, t) ==
  IF t.status # "ok" THEN PathFailed(configPath, t.status, start, t.trace)
  ELSE PathDereferenced(configPath, start, t, deepDereference(db, t.val, 0))

\* LoadTypeByPath after the start type was looked up
PathStarted(configPath, val) ==
  IF val = <<>> THEN PathFailed(configPath, "err", EmptyValue, NoTrace)
  ELSE PathTraversed(configPath, val[1], TraverseType(db, moduleNames, configPath, val[1]))

LoadTypeByPathOutcome(configPath, version) ==
  PathStarted(configPath, GetTypeByName(db, CaddyCorePackage, <<"Config">>, version))

LoadTypeByPath(configPath, version) ==
  /\ Idle
  /\ \E o \in {LoadTypeByPathOutcome(configPath, version)} :
       /\ result' = o
       /\ crashed' = Crashes(o.status)
  /\ UNCHANGED <<db, moduleNames, discoveredTypes, storeCalls, commits, scan, concurrent>>

\* Driver.TraverseType called with a stored type as the start value
Traverse(path, key) ==
  /\ Idle
  /\ key \in DOMAIN db
  /\ \E start \in {GetTypeByName(db, key[1], key[2], key[3])[1]} :
     \E t \in {TraverseType(db, moduleNames, path, start)} :
        /\ result' = [NoResult EXCEPT !.op = "TraverseType", !.path = path, !.start = start,
                        !.status = t.status, !.exact = t.val, !.nearest = t.nearest,
                        !.trace = t.trace]
        /\ crashed' = Crashes(t.status)
  /\ UNCHANGED <<db, moduleNames, discoveredTypes, storeCalls, commits, scan, concurrent>>

RECURSIVE DerefAll(_, _)

\* the end of one turn of LoadTypesByModuleID's loop
DerefAllRest(val, rest) ==
  IF rest.status # "ok" THEN rest
  ELSE [status |-> "ok", vals |-> <<val>> \o rest.vals, dangling |-> FALSE]

\* one turn of LoadTypesByModuleID's loop, r what deepDereference returned
DerefOne(d, vals, r) ==
  IF r.status = "err"
  THEN \* vals[i] is nil by now, and the error message reads vals[i].TypeName
       [status |-> "panic", vals |-> <<>>, dangling |-> TRUE]
  ELSE IF r.status # "ok" THEN [status |-> r.status, vals |-> <<>>, dangling |-> FALSE]
  ELSE DerefAllRest(r.val, DerefAll(d, Tail(vals)))

\* the loop of LoadTypesByModuleID
DerefAll(d, vals) ==
  IF vals = <<>> THEN [status |-> "ok", vals |-> <<>>, dangling |-> FALSE]
  ELSE DerefOne(d, vals, deepDereference(d, Head(vals), 0))

\* the caller has taken the result of a query
Return ==
  /\ ~crashed
  /\ result.op \in Queries
  /\ result' = NoResult
  /\ UNCHANGED <<db, moduleNames, discoveredTypes, storeCalls, commits, crashed, scan,
               concurrent>>

\* the stored types Driver.TraverseType is started at, and the paths
TraverseStarts == {TypeKey(PluginPackage, <<"App">>, ModuleVersion),
                   TypeKey(CaddyCorePackage, <<"ModuleMap">>, ModuleVersion),
                   TypeKey(PluginPackage, <<"Dup">>, ModuleVersion)}
TraversePaths == {<<>>, <<"servers">>, <<"servers", "/", "hide">>,
                  <<"servers", "/", "hide", "/", "x">>, <<"http">>,
                  <<"servers", "/", "nope">>, <<"routes", "/", "file_server">>}

ModuleIDs == {HTTPAppID, FileServerID, <<"nope">>}

LoadTypesByModuleID(moduleName) ==
  /\ Idle
  /\ \E r \in {DerefAll(db, GetTypesByCaddyModuleID(db, moduleNames, moduleName))} :
     /\ result' = [NoResult EXCEPT !.op = "LoadTypesByModuleID", !.moduleID = moduleName,
                                   !.status = r.status, !.vals = r.vals,
                                   !.trace = [NoTrace EXCEPT !.dangling = r.dangling]]
     /\ crashed' = Crashes(r.status)
  /\ UNCHANGED <<db, moduleNames, discoveredTypes, storeCalls, commits, scan, concurrent>>

Next ==
  \/ New
  \/ \E target \in AddTypeTargets, failing \in FailingChoices :
       AddType(target[1], target[2], failing)
  \/ \E order \in Orders(RegisteredTypes(PluginPackage)), failing \in FailingChoices :
       LoadModulesFromImportingPackage(PluginPackage, order, failing)
  \/ \E path \in Paths, version \in Versions : LoadTypeByPath(path, version)
  \/ \E path \in TraversePaths, key \in TraverseStarts : Traverse(path, key)
  \/ \E m \in ModuleIDs : LoadTypesByModuleID(m)
  \/ Return

Spec == Init /\ [][Next]_vars

-----------------------------------------------------------------------------
\* ---- the registration scan, node by node ----
\* The packages scanned are made of these pieces, in any order and split
\* over two files: the RegisterModule call and the CaddyModule method of a
\* type T whose ID is computed, of a type U whose ID is a literal, and of a
\* type V whose ModuleInfo literal has no ID.

ScanItems == {"cT", "mT", "cU", "mU", "cV", "mV"}

ItemNodes(item) ==
  CASE item = "cT" -> <<CallNode("T")>>
    [] item = "mT" -> <<FuncNode("T"),
                        ReturnNode(1, TRUE, <<Positional, KeyValue("ID", FALSE, <<>>),
                                              KeyValue("New", FALSE, <<>>)>>)>>
    [] item = "cU" -> <<CallNode("U")>>
    [] item = "mU" -> <<FuncNode("U"),
                        ReturnNode(1, TRUE, <<KeyValue("ID", TRUE, Literal(<<"u">>)),
                                              KeyValue("New", FALSE, <<>>)>>)>>
    [] item = "cV" -> <<CallNode("V")>>
    [] item = "mV" -> <<FuncNode("V"), ReturnNode(1, TRUE, <<KeyValue("New", FALSE, <<>>)>>)>>

RECURSIVE NodesOf(_)
NodesOf(items) == IF items = <<>> THEN <<>> ELSE ItemNodes(Head(items)) \o NodesOf(Tail(items))

ScanFiles(order, split) ==
  <<NodesOf(SubSeq(order, 1, split)), NodesOf(SubSeq(order, split + 1, Len(order)))>>

ScanInputs ==
  UNION {{ScanFiles(order, split) : split \in 0..Len(order)} :
         order \in UNION {Orders(S) : S \in SUBSET ScanItems}}

InitScan ==
  /\ db = <<>>
  /\ moduleNames = <<>>
  /\ discoveredTypes = <<>>
  /\ storeCalls = <<>>
  /\ commits = <<>>
  /\ crashed = FALSE
  /\ result = NoResult
  /\ \E files \in ScanInputs : scan = ScanOf(files)
  /\ builders = [g \in Goroutines |-> IdleBuilder]
  /\ mu = Unlocked
  /\ workspaces = [g \in Goroutines |-> NoWorkspace]

\* the callback of ast.Inspect on the next node of the file
ScanInspect ==
  /\ scan.outcome = ""
  /\ scan.file <= Len(scan.files)
  /\ scan.node <= Len(scan.files[scan.file])
  /\ scan' = [scan EXCEPT !.s = InspectNode(@, scan.files[scan.file][scan.node]),
                          !.node = @ + 1]
  /\ UNCHANGED <<db, moduleNames, discoveredTypes, storeCalls, commits, crashed, result,
               concurrent>>

\* ast.Inspect returns: the scan fails on an error, else goes to the next file
ScanEndFile ==
  /\ scan.outcome = ""
  /\ scan.file <= Len(scan.files)
  /\ scan.node > Len(scan.files[scan.file])
  /\ scan' = IF scan.s.inspectErr THEN [scan EXCEPT !.outcome = "err"]
             ELSE [scan EXCEPT !.file = @ + 1, !.node = 1,
                               !.s = [@ EXCEPT !.currentCaddyModuleFunc = ""]]
  /\ UNCHANGED <<db, moduleNames, discoveredTypes, storeCalls, commits, crashed, result,
               concurrent>>

\* the consistency checks after the last file, and the return
ScanFinish ==
  /\ scan.outcome = ""
  /\ scan.file > Len(scan.files)
  /\ scan' = [scan EXCEPT !.outcome = ScanOutcome(scan.s).status,
                          !.mods = ScanOutcome(scan.s).mods]
  /\ UNCHANGED <<db, moduleNames, discoveredTypes, storeCalls, commits, crashed, result,
               concurrent>>

NextScan == ScanInspect \/ ScanEndFile \/ ScanFinish

SpecScan == InitScan /\ [][NextScan]_vars

\* the scan taken node by node returns what findCaddyModuleIdents returns
ScanAgrees ==
  scan.outcome # "" =>
    /\ scan.outcome = findCaddyModuleIdents(scan.files).status
    /\ scan.mods = findCaddyModuleIdents(scan.files).mods

-----------------------------------------------------------------------------
\* ---- builds that run at the same time ----
\* Two goroutines call buildRepresentation on one Driver, each on a named
\* struct type whose fields are of basic types.  A goroutine's read and its
\* write of discoveredTypes take time: they begin and they end, and the
\* other goroutine may run in between.  Driver.mu is a field no code locks.

BuilderTypes == {"Remote", "Base"}

\* a goroutine is in the middle of a read or a write of discoveredTypes
Accessing(g) == builders[g].pc \in {"reading", "writing"}

\* two goroutines are in discoveredTypes at once, one of them writing
RacesWith(g) ==
  \E h \in Goroutines \ {g} :
     /\ Accessing(g) /\ Accessing(h)
     /\ "writing" \in {builders[g].pc, builders[h].pc}

BuilderStep(g, b) ==
  /\ ~crashed
  /\ builders' = [builders EXCEPT ![g] = b]

\* buildRepresentation is called on a named type
BuildStart(g, id) ==
  /\ builders[g].pc = "idle"
  /\ BuilderStep(g, [IdleBuilder EXCEPT !.pc = "check", !.typ = id])
  /\ UNCHANGED <<db, moduleNames, discoveredTypes, storeCalls, commits, crashed, result, scan,
                 mu, workspaces>>

\* the read of discoveredTypes[sameAs] begins
ReadBegin(g) ==
  /\ builders[g].pc = "check"
  /\ BuilderStep(g, [builders[g] EXCEPT !.pc = "reading"])
  /\ UNCHANGED <<db, moduleNames, discoveredTypes, storeCalls, commits, crashed, result, scan,
                 mu, workspaces>>

\* the read ends: the type was seen, or not; a read that ran while another
\* goroutine wrote the map finds either
ReadEnd(g) ==
  /\ builders[g].pc = "reading"
  /\ \E ok \in IF RacesWith(g) THEN BOOLEAN
               ELSE {IdentityKey(builders[g].typ) \in DOMAIN discoveredTypes} :
       BuilderStep(g, IF ok
                      THEN [builders[g] EXCEPT
                              !.pc = "done", !.out = Placeholder(IdentityKey(builders[g].typ))]
                      ELSE [builders[g] EXCEPT !.pc = "lookup"])
  /\ UNCHANGED <<db, moduleNames, discoveredTypes, storeCalls, commits, crashed, result, scan,
                 mu, workspaces>>

\* db.GetTypeByName: the Storage has the type, or the type is new
StorageLookup(g) ==
  /\ builders[g].pc = "lookup"
  /\ \E discoveredType \in
          {GetTypeByName(db, Decls[builders[g].typ].pkg, Decls[builders[g].typ].name,
                         getDepVersion(Decls[builders[g].typ].pkg, ModuleVersion))} :
       BuilderStep(g, IF discoveredType # <<>>
                      THEN [builders[g] EXCEPT !.pc = "write", !.hit = TRUE,
                                               !.rep = discoveredType[1]]
                      ELSE [builders[g] EXCEPT !.pc = "expand"])
  /\ UNCHANGED <<db, moduleNames, discoveredTypes, storeCalls, commits, crashed, result, scan,
                 mu, workspaces>>

\* the field loop, the doc and the type name of a new type
Expand(g) ==
  /\ builders[g].pc = "expand"
  /\ \E r \in {NamedStruct(BuildNamedFields(Decls[builders[g].typ],
                                            Decls[builders[g].typ].underlying.fields,
                                            <<>>, Session({}), 0))} :
       BuilderStep(g, [builders[g] EXCEPT
         !.pc = "write",
         !.rep = [r.rep EXCEPT !.Doc = Decls[builders[g].typ].doc,
                               !.TypeName = fullyQualifiedTypeName(Decls[builders[g].typ])]])
  /\ UNCHANGED <<db, moduleNames, discoveredTypes, storeCalls, commits, crashed, result, scan,
                 mu, workspaces>>

\* the write of discoveredTypes[sameAs] begins
WriteBegin(g) ==
  /\ builders[g].pc = "write"
  /\ BuilderStep(g, [builders[g] EXCEPT !.pc = "writing"])
  /\ UNCHANGED <<db, moduleNames, discoveredTypes, storeCalls, commits, crashed, result, scan,
                 mu, workspaces>>

\* the write ends: the build returns a placeholder for the type the Storage
\* had, or goes on to store the new type
WriteEnd(g) ==
  /\ builders[g].pc = "writing"
  /\ discoveredTypes' = Put(discoveredTypes, IdentityKey(builders[g].typ), builders[g].rep)
  /\ commits' = IF builders[g].hit THEN commits
                ELSE Incr(commits, IdentityKey(builders[g].typ))
  /\ BuilderStep(g, IF builders[g].hit
                    THEN [builders[g] EXCEPT !.pc = "done",
                                             !.out = Placeholder(builders[g].rep.TypeName)]
                    ELSE [builders[g] EXCEPT !.pc = "store"])
  /\ UNCHANGED <<db, moduleNames, storeCalls, crashed, result, scan, mu, workspaces>>

\* db.StoreType, and the return of the placeholder
Store(g) ==
  /\ builders[g].pc = "store"
  /\ storeCalls' = Incr(storeCalls, StorageKey(builders[g].typ))
  /\ db' = StoreType(db, StorageKey(builders[g].typ)[1], StorageKey(builders[g].typ)[2],
                     StorageKey(builders[g].typ)[3], builders[g].rep)
  /\ BuilderStep(g, [builders[g] EXCEPT
                       !.pc = "done", !.out = Placeholder(IdentityKey(builders[g].typ))])
  /\ UNCHANGED <<moduleNames, discoveredTypes, commits, crashed, result, scan, mu, workspaces>>

\* the caller has taken what buildRepresentation returned
BuildReturn(g) ==
  /\ builders[g].pc = "done"
  /\ BuilderStep(g, IdleBuilder)
  /\ UNCHANGED <<db, moduleNames, discoveredTypes, storeCalls, commits, crashed, result, scan,
                 mu, workspaces>>

\* the Go runtime finds the map read or written while it is written, and
\* ends the process ("fatal error: concurrent map writes")
MapFault ==
  /\ ~crashed
  /\ \E g \in Goroutines : RacesWith(g)
  /\ crashed' = TRUE
  /\ UNCHANGED <<db, moduleNames, discoveredTypes, storeCalls, commits, result, scan, concurrent>>

NextBuilders ==
  \/ \E g \in Goroutines, id \in BuilderTypes : BuildStart(g, id)
  \/ \E g \in Goroutines : ReadBegin(g)
  \/ \E g \in Goroutines : ReadEnd(g)
  \/ \E g \in Goroutines : StorageLookup(g)
  \/ \E g \in Goroutines : Expand(g)
  \/ \E g \in Goroutines : WriteBegin(g)
  \/ \E g \in Goroutines : WriteEnd(g)
  \/ \E g \in Goroutines : Store(g)
  \/ \E g \in Goroutines : BuildReturn(g)
  \/ MapFault
  \/ (\A g \in Goroutines : builders[g].pc = "idle") /\ New

SpecBuilders == Init /\ [][NextBuilders]_vars

-----------------------------------------------------------------------------
\* ---- the workspace's package cache ----
\* Every AddType and LoadModulesFromImportingPackage call opens a workspace
\* of its own, asks it for packages, and closes it.  The module of the
\* plugin is at ModuleVersion, which is also what "latest" resolves to.

MaxCalls == 2

Latest == <<"latest">>
SubPackage == PluginPackage \o <<"/", "sub">>
AllPackages == PluginPackage \o <<"/", "...">>

\* the patterns and versions that getPackages is called with
WorkspaceCalls ==
  {<<<<>>, <<>>>>, <<PluginPackage, <<>>>>, <<PluginPackage, Latest>>,
   <<PluginPackage, ModuleVersion>>, <<AllPackages, Latest>>}
Failures == {"", "go get", "packages.Load"}

\* strings.Contains(pkgKey, "/...")
IsPattern(pkgKey) == \E i \in 1..(Len(pkgKey) - 1) : pkgKey[i] = "/" /\ pkgKey[i+1] = "..."

\* a loaded package: its ID and the version of its module (empty when the
\* package has no module)
Package(id, version) == [ID |-> id, Version |-> version]

\* what packages.Load returns for a pattern
LoadedPackages(packagePattern) ==
  IF IsPattern(packagePattern)
  THEN <<Package(PluginPackage, ModuleVersion), Package(SubPackage, ModuleVersion)>>
  ELSE <<Package(packagePattern, ModuleVersion)>>

\* the packages that packages.Visit calls back on: the loaded ones and
\* what they import
VisitedPackages(pkgs) == {pkgs[i] : i \in DOMAIN pkgs} \cup {Package(JSONPackage, <<>>)}

\* the module path that go list reports for a pattern
ModulePath(packagePattern) == PluginPackage

packageKey(pkg) == IF pkg.Version # <<>> THEN pkg.ID \o <<"@">> \o pkg.Version ELSE pkg.ID

alreadyGotModule(ws, packagePath) ==
  \E i \in 1..Len(Split(packagePath, "/")) :
     JoinSlash(SubSeq(Split(packagePath, "/"), 1, i)) \in ws.goGets

\* cachedPackages: the keys of the cached packages, <<>> for nil
cachedPackages(ws, pkgKey) ==
  LET pkgList == IF IsPattern(pkgKey)
                 THEN (IF pkgKey \in DOMAIN ws.packagePatterns
                       THEN ws.packagePatterns[pkgKey] ELSE <<>>)
                 ELSE <<pkgKey>>
  IN IF \A i \in DOMAIN pkgList : pkgList[i] \in ws.parsedPackages THEN pkgList ELSE <<>>

\* one more call on the workspace, ended with this status
Called(ws, pkgKey, status, ranGoGet, ranLoad) ==
  [ws EXCEPT !.calls = @ + 1,
             !.succeeded = IF status = "ok" THEN @ \cup {pkgKey} ELSE @,
             !.loadRuns = IF ranLoad THEN Incr(@, pkgKey) ELSE @,
             !.last = [pkgKey |-> pkgKey, status |-> status,
                       succeededBefore |-> pkgKey \in ws.succeeded,
                       ranGoGet |-> ranGoGet, ranLoad |-> ranLoad]]

\* packages.Load, and the caching of what it returned
LoadAndCache(ws, packagePattern, pkgKey, pkgs, ranGoGet) ==
  Called([ws EXCEPT
            !.packagePatterns = Put(@, pkgKey, [i \in DOMAIN pkgs |-> packageKey(pkgs[i])]),
            !.parsedPackages = @ \cup {pkg.ID : pkg \in VisitedPackages(pkgs)}
                                 \cup {packageKey(pkg) : pkg \in VisitedPackages(pkgs)}],
         pkgKey, "ok", ranGoGet, TRUE)

\* getPackages: the workspace after the call; fails names the command that
\* fails if the call runs it
getPackages(ws, packagePattern, version, fails) ==
  LET pkgKey == IF version # <<>> THEN packagePattern \o <<"@">> \o version
                ELSE packagePattern
      got == alreadyGotModule(ws, packagePattern)
      gotten == IF got THEN ws
                ELSE [ws EXCEPT !.goGets = @ \cup {ModulePath(packagePattern)}]
  IN IF packagePattern = <<>> THEN Called(ws, pkgKey, "err", FALSE, FALSE)
     ELSE IF cachedPackages(ws, pkgKey) # <<>> THEN Called(ws, pkgKey, "ok", FALSE, FALSE)
     ELSE IF ~got /\ fails = "go get" THEN Called(ws, pkgKey, "err", TRUE, FALSE)
     ELSE IF fails = "packages.Load" THEN Called(gotten, pkgKey, "err", ~got, TRUE)
     ELSE LoadAndCache(gotten, packagePattern, pkgKey, LoadedPackages(packagePattern), ~got)

WorkspaceStep(g, ws) ==
  /\ workspaces' = [workspaces EXCEPT ![g] = ws]
  /\ UNCHANGED <<db, moduleNames, discoveredTypes, storeCalls, commits, crashed, result, scan,
                 builders, mu>>

\* a call of the Driver opens its workspace
OpenWorkspace(g) ==
  /\ ~workspaces[g].open
  /\ WorkspaceStep(g, [NoWorkspace EXCEPT !.open = TRUE])

\* the call asks its workspace for packages
GetPackages(g, packagePattern, version, fails) ==
  /\ workspaces[g].open
  /\ workspaces[g].calls < MaxCalls
  /\ WorkspaceStep(g, getPackages(workspaces[g], packagePattern, version, fails))

\* the call returns, and its deferred Close removes the workspace
CloseWorkspace(g) ==
  /\ workspaces[g].open
  /\ WorkspaceStep(g, NoWorkspace)

NextWorkspace ==
  \/ \E g \in Goroutines : OpenWorkspace(g)
  \/ \E g \in Goroutines, call \in WorkspaceCalls, fails \in Failures :
       GetPackages(g, call[1], call[2], fails)
  \/ \E g \in Goroutines : CloseWorkspace(g)

SpecWorkspace == Init /\ [][NextWorkspace]_vars

-----------------------------------------------------------------------------
\* ---- properties ----

\* what is left of a field's type once pointers and slices are taken off
RECURSIVE Peel(_)
Peel(typ) == IF typ.k \in {"pointer", "slice"} THEN Peel(typ.elem) ELSE typ

\* the included fields of a named struct type whose type is the type itself
SelfFields(id) ==
  IF Decls[id].underlying.k # "struct" THEN {}
  ELSE {j \in DOMAIN Decls[id].underlying.fields :
          /\ ~SkipsNamedField(Decls[id].underlying.fields[j])
          /\ Peel(Decls[id].underlying.fields[j].typ) = TNamed(id)}

SelfReferential == {id \in TypeIds : SelfFields(id) # {}}

\* the value of the field with this key in a struct value, EmptyValue if none
FieldValue(v, key) ==
  IF \E j \in DOMAIN v.StructFields : v.StructFields[j].Key = key
  THEN v.StructFields[CHOOSE j \in DOMAIN v.StructFields : v.StructFields[j].Key = key].Value
  ELSE EmptyValue

\* C1: building a self-referential named struct type that is in neither the
\* discovered set nor the Storage terminates, and the representation committed
\* for it holds, at the self-referential field, a placeholder whose same_as is
\* the type's own identity key.
C1_CycleSafety ==
  (/\ result.op = "AddType"
   /\ result.typeId \in SelfReferential
   /\ ~result.wasDiscovered
   /\ ~result.wasStored)
  => /\ result.status = "ok"
     /\ IdentityKey(result.typeId) \in DOMAIN discoveredTypes
     /\ \A j \in SelfFields(result.typeId) :
          LET field == Decls[result.typeId].underlying.fields[j]
              v == UnderlyingTypeVal(FieldValue(discoveredTypes[IdentityKey(result.typeId)],
                                                jsonNameFromTag(field.json).name))
          IN v.SameAs = IdentityKey(result.typeId)

\* the types the builder never remembers: the opaque extension payload
OpaqueMarkers == {id \in TypeIds : Decls[id].pkg = JSONPackage /\ Decls[id].name = <<"RawMessage">>}

RECURSIVE LastNamed(_)
LastNamed(names) ==
  IF names = <<>> THEN <<>>
  ELSE IF names[Len(names)] # <<>> THEN names[Len(names)]
  ELSE LastNamed(SubSeq(names, 1, Len(names) - 1))

\* the type names of the values a traversal met: the values it switched on,
\* dereferenced, then the value it ended at, dereferenced when it is stored
EncounteredNames ==
  LET final == dereference(db, result.exact) IN
  IF result.path = <<>> THEN <<result.start.TypeName>>
  ELSE result.trace.seen \o (IF final.status = "ok" THEN <<final.val.TypeName>> ELSE <<>>)

\* C3: when a traversal succeeds, the nearest value it returns is the last
\* value met along the path that carries a type name, a placeholder counting
\* as the named type it dereferences to.
C3_NearestNamedType ==
  (result.op \in {"LoadTypeByPath", "TraverseType"} /\ result.status = "ok") =>
     result.nearest.TypeName = LastNamed(EncounteredNames)

Traversals == {"LoadTypeByPath", "TraverseType"}

\* the segments a traversal consumed: one per struct-field and module step
SegmentsConsumed == result.trace.fieldSteps + result.trace.moduleSteps

\* C4: a map or array step goes to the element without consuming a segment,
\* and the same segment is matched against the element: the path items/name
\* resolves through the array to the string leaf, a successful traversal has
\* consumed every segment by struct-field and module steps alone, and a
\* traversal that fails at a segment reports the prefix those steps consumed.
C4_ContainerTransparency ==
  (result.op \in Traversals /\ result.path # <<>>) =>
     LET parts == ConfigPathParts(result.path) IN
     /\ result.status = "ok" => SegmentsConsumed = Len(parts)
     /\ (result.status = "err" /\ result.trace.errKind \in {"field not found", "unsupported"}) =>
          /\ SegmentsConsumed < Len(parts)
          /\ result.trace.errPrefix = JoinSlash(SubSeq(parts, 1, SegmentsConsumed))
     /\ (result.op = "LoadTypeByPath" /\ result.path = <<"items", "/", "name">>
           /\ result.status = "ok") =>
          /\ result.exact.Type = String
          /\ result.trace.containerSteps = 1
     /\ (result.op = "TraverseType" /\ result.path = <<"servers", "/", "hide">>
           /\ result.status = "ok") =>
          /\ result.exact.Type = Array
          /\ result.trace.containerSteps = 1

\* items/name was resolved through the array of Config.items
C4_Witness ==
  /\ result.op = "LoadTypeByPath"
  /\ result.path = <<"items", "/", "name">>
  /\ result.status = "ok"
  /\ result.trace.containerSteps = 1
  /\ result.trace.fieldSteps = 2
  /\ result.exact.Type = String

\* the identifier of the claim for a namespace (nil, or one string) and segment
ExpectedModuleID(ns, part) ==
  IF ns = <<>> THEN part
  ELSE IF ns[1] = <<>> THEN part
  ELSE ns[1] \o <<".">> \o part

\* C5: at a module or module_map value and segment s, the identifier passed to
\* GetTypesByCaddyModuleID is namespace + "." + s when the value's namespace is
\* set and not empty, and s otherwise; the namespace is the one of the field's
\* caddy tag, so handler/file_server looks up http.handlers.file_server and
\* apps/http, whose namespace is empty, looks up http.
C5_ExtensionResolution ==
  (result.op \in Traversals) =>
     /\ \A j \in DOMAIN result.trace.lookups :
          result.trace.lookups[j].id =
            ExpectedModuleID(result.trace.lookups[j].ns, result.trace.lookups[j].part)
     /\ (result.op = "LoadTypeByPath" /\ result.trace.lookups # <<>>) =>
          LET l == result.trace.lookups[1] IN
          /\ l.part = <<"file_server">> =>
               (l.ns = <<HTTPHandlers>> /\ l.id = HTTPHandlers \o <<".", "file_server">>)
          /\ l.part = <<"http">> => (l.ns = << <<>> >> /\ l.id = <<"http">>)
     /\ (result.op = "TraverseType" /\ result.trace.lookups # <<>>) =>
          LET l == result.trace.lookups[1] IN
          /\ result.start.Type = ModuleMap => (l.ns = <<>> /\ l.id = l.part)
          /\ (result.start.Type = Struct /\ result.path = <<"routes", "/", "file_server">>) =>
               (l.ns = <<HTTPHandlers>> /\ l.id = HTTPHandlers \o <<".", "file_server">>)

\* a segment was looked up under the namespace of the handler field
C5_Witness ==
  /\ result.op = "LoadTypeByPath"
  /\ result.status = "ok"
  /\ Len(result.trace.lookups) = 1
  /\ result.trace.lookups[1].ns = <<HTTPHandlers>>
  /\ result.trace.lookups[1].id = FileServerID

\* where the text d occurs in doc
Occurrences(doc, d) ==
  {i \in 1..(Len(doc) - Len(d) + 1) : SubSeq(doc, i, i + Len(d) - 1) = d}

\* doc contains d1 and then d2
InOrder(doc, d1, d2) ==
  \E i \in Occurrences(doc, d1) : \E k \in Occurrences(doc, d2) : i + Len(d1) <= k

\* doc contains d1 and then d2, each exactly once
InOrderOnce(doc, d1, d2) ==
  /\ InOrder(doc, d1, d2)
  /\ Cardinality(Occurrences(doc, d1)) = 1
  /\ d2 # <<>> => Cardinality(Occurrences(doc, d2)) = 1

\* the stored type a placeholder names, the value itself when it names none
Target(v) ==
  IF IsPlaceholder(v) /\ dereference(db, [v EXCEPT !.Doc = <<>>]).status = "ok"
  THEN dereference(db, [v EXCEPT !.Doc = <<>>]).val
  ELSE v

\* the doc of the target type of a struct field's value: of the type the value
\* names or, when that is a map or an array, of the type of its elements
TargetTypeDoc(fieldValue) ==
  IF Target(fieldValue).Elems # <<>> THEN Target(Target(fieldValue).Elems[1]).Doc
  ELSE Target(fieldValue).Doc

\* the struct values a query deeply dereferenced, each with what it returned
DeepDereferenced ==
  IF result.op = "LoadTypeByPath" /\ result.status = "ok"
  THEN {<<Target(result.exact), result.rep>>}
  ELSE IF result.op = "LoadTypesByModuleID" /\ result.status = "ok"
  THEN {<<GetTypesByCaddyModuleID(db, moduleNames, result.moduleID)[j], result.vals[j]>> :
          j \in DOMAIN result.vals}
  ELSE {}

\* C6 as stated: dereferencing a placeholder whose doc is D1 to a stored type
\* whose doc is D2 gives a doc that contains D1 and then D2, and
\* deepDereference gives a struct field whose doc is D1 and whose target type
\* has the doc D2 a field doc that contains D1 and then D2, each exactly once.
C6_DocMergeOrder ==
  /\ (result.op = "LoadTypeByPath" /\ result.status = "ok"
        /\ IsPlaceholder(result.exact) /\ result.exact.Doc # <<>>) =>
       InOrder(dereference(db, result.exact).val.Doc, result.exact.Doc, Target(result.exact).Doc)
  /\ \A p \in DeepDereferenced : \A j \in DOMAIN p[1].StructFields :
       p[1].StructFields[j].Doc # <<>> =>
         InOrderOnce(p[2].StructFields[j].Doc, p[1].StructFields[j].Doc,
                     TargetTypeDoc(p[1].StructFields[j].Value))

\* C6, amended: dereference joins the two docs unchanged, D1 before D2;
\* deepDereference trims the white space at the ends of the merged text, so a
\* field doc contains D1 and then D2, each exactly once, up to the white space
\* at the ends of D1 and D2.
C6_DocMergeTrimmed ==
  /\ (result.op = "LoadTypeByPath" /\ result.status = "ok"
        /\ IsPlaceholder(result.exact) /\ result.exact.Doc # <<>>) =>
       /\ InOrder(dereference(db, result.exact).val.Doc, result.exact.Doc,
                  Target(result.exact).Doc)
       /\ InOrder(result.rep.Doc, result.exact.Doc, Target(result.exact).Doc)
  /\ \A p \in DeepDereferenced : \A j \in DOMAIN p[1].StructFields :
       p[1].StructFields[j].Doc # <<>> =>
         /\ InOrderOnce(p[2].StructFields[j].Doc, TrimSpace(p[1].StructFields[j].Doc),
                        TrimSpace(TargetTypeDoc(p[1].StructFields[j].Value)))
         /\ p[2].StructFields[j].Doc = TrimSpace(p[2].StructFields[j].Doc)

\* the path admin ends at a placeholder that carries the field's doc, and the
\* struct it names has a documented field of a documented named type
C6_Witness ==
  /\ result.op = "LoadTypeByPath"
  /\ result.status = "ok"
  /\ IsPlaceholder(result.exact)
  /\ result.exact.Doc = <<"FAdmin", "\n">>
  /\ Target(result.exact).Doc = <<"DAdmin", "\n">>
  /\ result.rep.Doc = <<"FAdmin", "\n", "\n", "\n", "DAdmin", "\n">>
  /\ \E j \in DOMAIN result.rep.StructFields :
       /\ Target(result.exact).StructFields[j].Doc = <<"FRemote", "\n">>
       /\ TargetTypeDoc(Target(result.exact).StructFields[j].Value) = <<"DRemote", "\n">>
       /\ result.rep.StructFields[j].Doc = <<"FRemote", "\n", "\n", "\n", "DRemote">>

\* whether a placeholder is left anywhere in a value
RECURSIVE HasPlaceholder(_)
HasPlaceholder(v) ==
  \/ IsPlaceholder(v)
  \/ \E j \in DOMAIN v.StructFields : HasPlaceholder(v.StructFields[j].Value)
  \/ \E j \in DOMAIN v.MapKeys : HasPlaceholder(v.MapKeys[j])
  \/ \E j \in DOMAIN v.Elems : HasPlaceholder(v.Elems[j])

\* a field's serialization name: the text of its json annotation before the
\* first comma
SerializationName(field) ==
  IF Index(field.json, ",") = 0 THEN field.json
  ELSE SubSeq(field.json, 1, Index(field.json, ",") - 1)

\* the serialization names of a struct's declared shape, in declaration
\* order: of its exported fields that have a name other than "-", the fields
\* of an embedded struct taking the place of the embedded field
RECURSIVE SerializedKeys(_)
SerializedKeys(fields) ==
  IF fields = <<>> THEN <<>>
  ELSE LET field == Head(fields)
           embedded == IF field.embedded /\ Peel(field.typ).k = "named"
                       THEN Decls[Peel(field.typ).n].underlying
                       ELSE TInterface
       IN (IF ~field.exported THEN <<>>
           ELSE IF field.embedded /\ SerializationName(field) = <<>>
             THEN (IF embedded.k = "struct" THEN SerializedKeys(embedded.fields) ELSE <<>>)
           ELSE IF SerializationName(field) \in {<<>>, <<"-">>} THEN <<>>
           ELSE <<SerializationName(field)>>)
          \o SerializedKeys(Tail(fields))

\* C7: for a type without self-reference, deepDereference of what
\* buildRepresentation returned is a value without any placeholder whose
\* struct fields are, in declaration order, the fields of the type's declared
\* shape, each under its serialization name.
C7_RoundTrip ==
  (/\ result.op = "AddType"
   /\ result.status = "ok"
   /\ result.typeId \in TypeIds \ SelfReferential) =>
     /\ deepDereference(db, result.rep, 0).status = "ok"
     /\ ~HasPlaceholder(deepDereference(db, result.rep, 0).val)
     /\ Decls[result.typeId].underlying.k = "struct" =>
          [j \in DOMAIN deepDereference(db, result.rep, 0).val.StructFields |->
             deepDereference(db, result.rep, 0).val.StructFields[j].Key]
            = SerializedKeys(Decls[result.typeId].underlying.fields)

\* C8: a query that meets a placeholder whose identity is not in the Storage
\* returns an error and nil results to its caller; it does not crash and does
\* not return a partial value.
C8_DanglingIsError ==
  (result.op \in Queries /\ result.trace.dangling) =>
     /\ result.status = "err"
     /\ ~crashed
     /\ result.rep = EmptyValue
     /\ result.exact = EmptyValue
     /\ result.nearest = EmptyValue
     /\ result.vals = <<>>

\* C9: when a traversal looks up an identifier for which the index has no
\* implementation, the traversal fails with an error returned to the caller.
C9_MissingExtension ==
  (/\ result.op \in Traversals
   /\ \E j \in DOMAIN result.trace.lookups :
        GetTypesByCaddyModuleID(db, moduleNames, result.trace.lookups[j].id) = <<>>)
  => (result.status = "err" /\ ~crashed)

\* the nodes of the scanned files, in the order they are visited
RECURSIVE FlatNodes(_)
FlatNodes(files) == IF files = <<>> THEN <<>> ELSE Head(files) \o FlatNodes(Tail(files))

\* where the CaddyModule method of a type returns an ID that is no literal
ComputedReturns(nodes, id) ==
  {p \in 2..Len(nodes) :
     /\ nodes[p].n = "return" /\ nodes[p].nres = 1 /\ nodes[p].compLit
     /\ FindID(nodes[p].elts).kind = "computed"
     /\ nodes[p-1].n = "func" /\ nodes[p-1].ident = id}

\* where a type is passed to RegisterModule
RegisterCalls(nodes, id) == {p \in DOMAIN nodes : nodes[p].n = "call" /\ nodes[p].ident = id}

ScannedTypes == {"T", "U", "V"}

\* the types of the scanned package whose ID is computed
ComputedTypes == {id \in ScannedTypes : ComputedReturns(FlatNodes(scan.files), id) # {}}

\* a file without the registration and the CaddyModule method of a type
RECURSIVE WithoutType(_, _)
WithoutType(nodes, id) ==
  IF nodes = <<>> THEN <<>>
  ELSE IF Head(nodes).n = "call" /\ Head(nodes).ident = id THEN WithoutType(Tail(nodes), id)
  ELSE IF Head(nodes).n = "func" /\ Head(nodes).ident = id
    THEN (IF Len(nodes) >= 2 /\ nodes[2].n = "return"
          THEN WithoutType(Tail(Tail(nodes)), id)
          ELSE WithoutType(Tail(nodes), id))
  ELSE <<Head(nodes)>> \o WithoutType(Tail(nodes), id)

RegisteredInSource ==
  {id \in ScannedTypes : RegisterCalls(FlatNodes(scan.files), id) # {}}

\* the types of the scanned package that have a CaddyModule method
ImplementedInSource ==
  {id \in ScannedTypes :
     \E p \in DOMAIN FlatNodes(scan.files) :
        FlatNodes(scan.files)[p].n = "func" /\ FlatNodes(scan.files)[p].ident = id}

\* the module ID the CaddyModule method of a type returns as a literal
\* (no such return: the empty set)
LiteralIDs(id) ==
  {FindID(FlatNodes(scan.files)[p].elts).name :
     p \in {q \in 2..Len(FlatNodes(scan.files)) :
              /\ FlatNodes(scan.files)[q].n = "return"
              /\ FlatNodes(scan.files)[q].nres = 1 /\ FlatNodes(scan.files)[q].compLit
              /\ FindID(FlatNodes(scan.files)[q].elts).kind = "literal"
              /\ FlatNodes(scan.files)[q-1].n = "func"
              /\ FlatNodes(scan.files)[q-1].ident = id}}

\* the types of the scanned package with an extracted module ID
IdentifiedInSource == {id \in ScannedTypes : LiteralIDs(id) \ {<<>>} # {}}

C12_CommitOnlyAfterSuccess ==
  [][(result'.op = "AddType" /\ result'.status = "err")
       => (db' = db /\ discoveredTypes' = discoveredTypes)]_vars

\* ---- C13 ----

\* The Value a query obtained from the Storage and the Value the query
\* returns are one Go object: dereference returns the typ it loaded, and
\* deepDereference the val it was given or loaded, after writing to it.  The
\* pairs of DeepDereferenced hold that object as the Storage gave it (module
\* information apart) and as it is when the query returns.

\* whether a Value, as it is after a query, has the attributes it had when
\* it was obtained: its kind, type name, same_as and doc, and the keys and
\* docs of its struct fields
Untouched(before, after) ==
  /\ after.Type = before.Type
  /\ after.TypeName = before.TypeName
  /\ after.SameAs = before.SameAs
  /\ after.Doc = before.Doc
  /\ Len(after.StructFields) = Len(before.StructFields)
  /\ \A j \in DOMAIN before.StructFields :
       /\ j \in DOMAIN after.StructFields
       /\ after.StructFields[j].Key = before.StructFields[j].Key
       /\ after.StructFields[j].Doc = before.StructFields[j].Doc

\* C13: a query changes no attribute of a Value obtained from the Storage
\* other than its module namespace and inline key; in particular its doc is
\* the same after the query as before.
C13_QueriesReadOnly ==
  \A pair \in DeepDereferenced : Untouched(pair[1], pair[2])

\* ---- C14 ----

\* a goroutine holds Driver.mu for reading, or for writing
HoldsRead(g) == g \in mu.readers \/ mu.writer = g
HoldsWrite(g) == mu.writer = g

\* C14: every read and every write of discoveredTypes is made while the
\* goroutine holds the Driver's reader/writer lock, so no two builds are in
\* the cache at the same time with one of them writing.
C14_LockDiscipline ==
  /\ \A g \in Goroutines :
       /\ builders[g].pc = "reading" => HoldsRead(g)
       /\ builders[g].pc = "writing" => HoldsWrite(g)
  /\ \A g \in Goroutines : ~RacesWith(g)


\* the package keys that packages.Load has run for
LoadedKeys == UNION {DOMAIN workspaces[g].loadRuns : g \in Goroutines}

\* how often packages.Load has run for a package key, in all the workspaces
\* that are open
Loads(pkgKey) == Count(workspaces["g1"].loadRuns, pkgKey) + Count(workspaces["g2"].loadRuns, pkgKey)

\* C15: for a package pattern and version, the fetch and parse of the
\* packages runs at most once, also when several calls of the Driver ask
\* for them at the same time
C15_SingleFetch == \A pkgKey \in LoadedKeys : Loads(pkgKey) <= 1

\* C19: in a workspace, a getPackages call whose pattern and version a call
\* has succeeded for before runs neither go get nor packages.Load
C19_AmortizedLoading ==
  \A g \in Goroutines :
     workspaces[g].last.succeededBefore =>
       /\ ~workspaces[g].last.ranGoGet
       /\ ~workspaces[g].last.ranLoad


\* the operations that are a build session
Sessions == {"AddType", "LoadModulesFromImportingPackage"}

\* C16: when a build session (an AddType or LoadModulesFromImportingPackage
\* call) has completed, the discovered set is empty: what the session put
\* into it is discarded, and the next session starts with none of it
C16_SessionScoped == (result.op \in Sessions /\ ~crashed) => discoveredTypes = <<>>


RECURSIVE SubValues(_)
\* a Value and the Values inside it
SubValues(v) ==
  {v} \cup UNION {SubValues(v.StructFields[i].Value) : i \in DOMAIN v.StructFields}
      \cup UNION {SubValues(v.MapKeys[i]) : i \in DOMAIN v.MapKeys}
      \cup UNION {SubValues(v.Elems[i]) : i \in DOMAIN v.Elems}

\* the Values StoreType was given
Committed == UNION {{db[key][i] : i \in DOMAIN db[key]} : key \in DOMAIN db}

\* the Values buildRepresentation has returned or committed: what AddType
\* returned, what the Storage holds, and the Values inside those
BuiltValues ==
  UNION {SubValues(v) : v \in Committed \cup
                              (IF result.op = "AddType" /\ result.status = "ok"
                               THEN {result.rep} ELSE {})}

\* C18: no two fields of a struct Value that buildRepresentation produced
\* have the same key, also when fields came from an embedded type
C18_KeyUniqueness ==
  \A v \in BuiltValues :
     \A i, j \in DOMAIN v.StructFields :
        i # j => v.StructFields[i].Key # v.StructFields[j].Key


\* the eleven kinds of a Value
ValueKinds == {Bool, IntKind, Uint, Float, Complex, String, Struct, Array, Map, Module, ModuleMap}

NoChildren(v) == v.StructFields = <<>> /\ v.MapKeys = <<>> /\ v.Elems = <<>>

\* same_as set, and kind, type_name, struct_fields, map_keys, elems empty
PlaceholderShape(v) ==
  v.SameAs # <<>> /\ v.Type = "" /\ v.TypeName = <<>> /\ NoChildren(v)

\* same_as empty and one of the eleven kinds, struct_fields only in a
\* struct, elems in a map or an array and in no other kind
ExpandedShape(v) ==
  /\ v.SameAs = <<>>
  /\ v.Type \in ValueKinds
  /\ v.StructFields # <<>> => v.Type = Struct
  /\ v.Elems # <<>> <=> v.Type \in {Map, Array}

\* what an interface type yields: no same_as, no kind, nothing inside
InterfaceShape(v) == v.SameAs = <<>> /\ v.Type = "" /\ NoChildren(v)

\* what is committed for a named type whose underlying type is a pointer
\* to a named type: the placeholder of the pointee under the type's name
NamedPointerShape(v) ==
  v.SameAs # <<>> /\ v.Type = "" /\ v.TypeName # <<>> /\ NoChildren(v) /\ v \in Committed

C20_PlaceholderIdentity ==
  /\ (result.op = "AddType" /\ result.status = "ok" /\ result.typeId # "RawMessage")
       => result.rep = Placeholder(IdentityKey(result.typeId))
  /\ \A v \in BuiltValues :
        v.SameAs # <<>> => \E id \in TypeIds : v.SameAs = IdentityKey(id)


\* C21: the segments TraverseType splits a path into are all non-empty,
\* also for paths such as "/" and "a//b"
C21_PathSplitting ==
  (result.op \in Traversals /\ result.start # EmptyValue /\ result.path # <<>>) =>
    \A i \in DOMAIN ConfigPathParts(result.path) : ConfigPathParts(result.path)[i] # <<>>


\* the first n segments of the path that was traversed, joined by "/"
SegmentsJoined(n) == JoinSlash(SubSeq(ConfigPathParts(result.path), 1, n))

\* C22: when a struct has no field for the current segment, TraverseType
\* returns an error and no values, and the error names the segments that
\* were consumed before, joined by "/", whatever containers were stepped
\* through on the way
C22_FieldMiss ==
  (result.op \in Traversals /\ result.trace.errKind = "field not found") =>
    /\ result.status = "err"
    /\ result.exact = EmptyValue /\ result.nearest = EmptyValue /\ result.rep = EmptyValue
    /\ result.trace.errPrefix = SegmentsJoined(SegmentsConsumed)

\* App was traversed along "servers/nope": through the field servers, the
\* map and the placeholder of Base, whose struct has no field nope
C22_Witness ==
  /\ result.op = "TraverseType" /\ result.path = <<"servers", "/", "nope">>
  /\ result.trace.errKind = "field not found"
  /\ result.trace.containerSteps = 1 /\ result.trace.fieldSteps = 1
  /\ result.trace.errPrefix = <<"servers">>


\* the kinds TraverseType can go into
Traversable == {Struct, Module, ModuleMap, Map, Array}

\* the kind of the value the traversal switched on last
LastKind == result.trace.kinds[Len(result.trace.kinds)]

\* C23: when a segment remains and the dereferenced value is of no kind
\* that can be gone into (a primitive, or a value without a kind),
\* TraverseType returns the unsupported error and no values
C23_UnsupportedKind ==
  (result.op \in Traversals /\ result.trace.kinds # <<>> /\ LastKind \notin Traversable) =>
    /\ result.status = "err"
    /\ result.trace.errKind = "unsupported"
    /\ result.exact = EmptyValue /\ result.nearest = EmptyValue /\ result.rep = EmptyValue
    /\ SegmentsConsumed < Len(ConfigPathParts(result.path))

\* a traversal ended at the interface value of admin/any with the segment
\* x left
C23_Witness ==
  /\ result.op = "LoadTypeByPath" /\ result.path = <<"admin", "/", "any", "/", "x">>
  /\ result.trace.errKind = "unsupported"
  /\ LastKind = ""
  /\ result.trace.errPrefix = <<"admin", "/", "any">>


\* the last module step of the traversal
LastLookup == result.trace.lookups[Len(result.trace.lookups)]

\* the type names of the types stored for the module the last module step
\* resolved
ResolvedNames ==
  {GetTypesByCaddyModuleID(db, moduleNames, LastLookup.id)[i].TypeName :
     i \in DOMAIN GetTypesByCaddyModuleID(db, moduleNames, LastLookup.id)}

\* C24: a module resolved at the last segment of the path is returned with
\* the inline key of the module or module_map value it was selected in; a
\* module resolved at an earlier segment has no inline key carried onto it
C24_InlineKeyCarry ==
  (result.op \in Traversals /\ result.status = "ok" /\ result.trace.lookups # <<>>) =>
    /\ LastLookup.final => result.exact.ModuleInlineKey = LastLookup.inlineKey
    /\ (~LastLookup.final /\ result.nearest.TypeName \in ResolvedNames)
         => result.nearest.ModuleInlineKey = <<>>

\* the module file_server was selected at the last segment, in a module
\* value with inline key "handler"
C24_Witness ==
  /\ result.op = "LoadTypeByPath" /\ result.status = "ok"
  /\ result.path = <<"handler", "/", "file_server">>
  /\ LastLookup.final /\ LastLookup.inlineKey = << <<"handler">> >>
  /\ result.exact.ModuleInlineKey = << <<"handler">> >>


\* C25: TraverseType appends a struct field's own doc to the doc of the
\* field's value only for the field that the last segment of the path
\* matches; the value of a field matched by an earlier segment keeps its doc
C25_FieldDocAtTarget ==
  result.op \in Traversals =>
    \A k \in DOMAIN result.trace.fields :
       LET step == result.trace.fields[k] IN
       IF step.segment = Len(ConfigPathParts(result.path))
       THEN step.doc = (IF step.field.Value.Doc # <<>> THEN step.field.Value.Doc \o DocSep
                        ELSE <<>>) \o step.field.Doc
       ELSE step.doc = step.field.Value.Doc

\* "admin/listen" was traversed: the field admin, which has a doc, was passed
\* through, and the field listen was the target
C25_Witness ==
  /\ result.op = "LoadTypeByPath" /\ result.status = "ok"
  /\ result.path = <<"admin", "/", "listen">>
  /\ Len(result.trace.fields) = 2
  /\ result.trace.fields[1].field.Doc = <<"FAdmin", "\n">>
  /\ result.trace.fields[1].doc = <<>>
  /\ result.exact.Doc = <<"FListen", "\n">>


RECURSIVE Innermost(_)
\* the value inside the arrays and maps of a value
Innermost(v) == IF v.Elems # <<>> THEN Innermost(v.Elems[1]) ELSE v

RECURSIVE Containers(_)
\* the arrays and maps around the innermost value, the value itself included
\* when it is one
Containers(v) == IF v.Elems # <<>> THEN {v} \cup Containers(v.Elems[1]) ELSE {}

\* the fields of a declared struct type whose caddy tag has a namespace or
\* an inline key, and that the field loop represents
TaggedFields(id) ==
  IF Decls[id].underlying.k # "struct" THEN {}
  ELSE {Decls[id].underlying.fields[i] : i \in
          {i \in DOMAIN Decls[id].underlying.fields :
             LET field == Decls[id].underlying.fields[i] IN
             /\ ~SkipsNamedField(field) /\ ~field.embedded
             /\ (field.caddy.namespace # <<>> \/ field.caddy.inline_key # <<>>)}}

\* the tag's namespace and inline key are on the value, as far as the tag
\* has them
HasMetadata(v, ctf) ==
  /\ ctf.namespace # <<>> => v.ModuleNamespace = ctf.namespace
  /\ ctf.inline_key # <<>> => v.ModuleInlineKey = ctf.inline_key

NoMetadata(v) == v.ModuleNamespace = <<>> /\ v.ModuleInlineKey = <<>>

\* C26: for every field whose caddy tag has a namespace or an inline key,
\* the committed representation has them on the innermost value inside the
\* field's arrays and maps, and on none of the arrays and maps, however
\* deep they nest
C26_MetadataOnLeaf ==
  \A id \in TypeIds :
     StorageKey(id) \in DOMAIN db =>
       \A rep \in {db[StorageKey(id)][i] : i \in DOMAIN db[StorageKey(id)]} :
       \A field \in TaggedFields(id) :
          LET v == FieldValue(rep, jsonNameFromTag(field.json).name) IN
          /\ HasMetadata(Innermost(v), field.caddy)
          /\ \A c \in Containers(v) : NoMetadata(c)


\* the anonymous struct type of the elements of Config.Items
ItemType ==
  LET fields == Decls["Config"].underlying.fields
  IN fields[CHOOSE i \in DOMAIN fields : fields[i].name = "Items"].typ.elem

\* the serialization names of the fields of a struct type that have one,
\* in the order of the fields
RECURSIVE AnnotatedNames(_)
AnnotatedNames(fields) ==
  IF fields = <<>> THEN <<>>
  ELSE (IF jsonNameFromTag(Head(fields).json).ok /\ jsonNameFromTag(Head(fields).json).name # <<>>
        THEN <<jsonNameFromTag(Head(fields).json).name>> ELSE <<>>)
       \o AnnotatedNames(Tail(fields))

\* C27: an anonymous struct is built with the fields that have a
\* serialization name and no others: a field without one, or excluded with
\* "-", is skipped, and no field of an anonymous struct has an empty key
C27_AnonymousFields ==
  /\ \A v \in BuiltValues :
        (v.Type = Struct /\ v.TypeName = <<>>) =>
          \A i \in DOMAIN v.StructFields : v.StructFields[i].Key # <<>>
  /\ \A rep \in Committed :
        rep.TypeName = fullyQualifiedTypeName(Decls["Config"]) =>
          LET item == FieldValue(rep, <<"items">>).Elems[1] IN
          [i \in DOMAIN item.StructFields |-> item.StructFields[i].Key]
            = AnnotatedNames(ItemType.fields)


\* the struct type an embedded field's type resolves to: through pointers
\* and the declaration of a named type; <<>> when it is no struct
EmbeddedStruct(typ) ==
  LET t == IF typ.k = "pointer" THEN typ.elem ELSE typ
      u == IF t.k = "named" THEN Decls[t.n].underlying ELSE t
  IN IF u.k = "struct" THEN <<[fields |-> u.fields, named |-> (t.k = "named")]>> ELSE <<>>

RECURSIVE FlattenedKeys(_, _)
\* the keys of a struct type's fields with the fields of its embedded
\* structs in place of the embedded fields
FlattenedKeys(fields, named) ==
  IF fields = <<>> THEN <<>>
  ELSE LET field == Head(fields)
           own == IF (IF named THEN SkipsNamedField(field) ELSE SkipsAnonField(field))
                  THEN <<>>
                  ELSE IF ~field.embedded THEN <<jsonNameFromTag(field.json).name>>
                  ELSE IF EmbeddedStruct(field.typ) = <<>> THEN <<>>
                  ELSE FlattenedKeys(EmbeddedStruct(field.typ)[1].fields,
                                     EmbeddedStruct(field.typ)[1].named)
       IN own \o FlattenedKeys(Tail(fields), named)

Keys(v) == [i \in DOMAIN v.StructFields |-> v.StructFields[i].Key]

\* the anonymous struct type of App.Extra, which embeds the named type Base
ExtraType ==
  LET fields == Decls["App"].underlying.fields
  IN fields[CHOOSE i \in DOMAIN fields : fields[i].name = "Extra"].typ

\* a committed named struct has the fields of its embedded structs in place
NamedFlattened ==
  \A id \in TypeIds :
     (Decls[id].underlying.k = "struct" /\ StorageKey(id) \in DOMAIN db) =>
       \A i \in DOMAIN db[StorageKey(id)] :
          Keys(db[StorageKey(id)][i]) = FlattenedKeys(Decls[id].underlying.fields, TRUE)

\* the anonymous struct of App.Extra has the fields of the embedded Base in
\* place
AnonymousFlattened ==
  StorageKey("App") \in DOMAIN db =>
    \A i \in DOMAIN db[StorageKey("App")] :
       Keys(FieldValue(db[StorageKey("App")][i], <<"extra">>))
         = FlattenedKeys(ExtraType.fields, FALSE)

\* C28: a struct, named or anonymous, that embeds a field whose type
\* resolves to a struct has the embedded struct's fields in its own field
\* list, in place, and no field for the embedded field itself, also when
\* the embedded type is a named type built as a placeholder
C28_EmbeddedFlattening == NamedFlattened /\ AnonymousFlattened


\* the type a pointer type points to, any other type itself
RECURSIVE Pointee(_)
Pointee(typ) == IF typ.k = "pointer" THEN Pointee(typ.elem) ELSE typ

\* the key type is built as string, the element type as the module leaf
BuiltAsString(typ) == Pointee(typ).k = "basic" /\ Pointee(typ).b = "string"
BuiltAsModule(typ) == Pointee(typ).k = "named" /\ Pointee(typ).n \in OpaqueMarkers

RECURSIVE MapsBuilt(_, _)
\* in the value built for a type, every map type whose key is built as
\* string and whose element is built as module is a module_map without keys
\* and elements, and every other map type is a map with both
MapsBuilt(typ, v) ==
  CASE typ.k = "pointer" -> MapsBuilt(typ.elem, v)
    [] typ.k = "slice" -> v.Elems # <<>> /\ MapsBuilt(typ.elem, v.Elems[1])
    [] typ.k = "map" ->
         IF BuiltAsString(typ.key) /\ BuiltAsModule(typ.elem)
         THEN v.Type = ModuleMap /\ v.MapKeys = <<>> /\ v.Elems = <<>>
         ELSE /\ v.Type = Map /\ v.MapKeys # <<>> /\ v.Elems # <<>>
              /\ MapsBuilt(typ.key, v.MapKeys[1])
              /\ MapsBuilt(typ.elem, v.Elems[1])
    [] OTHER -> TRUE

\* the fields of a declared struct type that get a field of their own
OwnFields(id) ==
  {Decls[id].underlying.fields[i] : i \in
     {i \in DOMAIN Decls[id].underlying.fields :
        /\ ~SkipsNamedField(Decls[id].underlying.fields[i])
        /\ ~Decls[id].underlying.fields[i].embedded}}

\* C29: a map type is built as one module_map value, without map_keys and
\* elems, exactly when its key is built as string and its element as the
\* module leaf; every other map type is built as a map with map_keys and
\* elems
C29_ModuleMapCollapse ==
  \A id \in TypeIds :
     StorageKey(id) \in DOMAIN db =>
       \A i \in DOMAIN db[StorageKey(id)] :
          IF Decls[id].underlying.k = "struct"
          THEN \A field \in OwnFields(id) :
                  MapsBuilt(field.typ, FieldValue(db[StorageKey(id)][i],
                                                  jsonNameFromTag(field.json).name))
          ELSE MapsBuilt(Decls[id].underlying, db[StorageKey(id)][i])

\* Config is committed and with it ModuleMap, a map of string to
\* json.RawMessage, as a module_map; Opts is committed with a map of int to
\* json.RawMessage as a map
C29_Witness ==
  /\ StorageKey("ModuleMap") \in DOMAIN db
  /\ db[StorageKey("ModuleMap")][1].Type = ModuleMap
  /\ StorageKey("Opts") \in DOMAIN db
  /\ FieldValue(db[StorageKey("Opts")][1], <<"by_code">>).Type = Map
  /\ FieldValue(db[StorageKey("Opts")][1], <<"by_code">>).Elems[1].Type = Module
  /\ FieldValue(db[StorageKey("Opts")][1], <<"routes">>).Type = Map


\* the type is in neither discoveredTypes nor the Storage, and was never
\* put into either
NeverRemembered(id) ==
  /\ IdentityKey(id) \notin DOMAIN discoveredTypes
  /\ \A key \in DOMAIN db : ~(key[1] = Decls[id].pkg /\ key[2] = Decls[id].name)
  /\ Count(commits, IdentityKey(id)) = 0
  /\ \A key \in DOMAIN storeCalls : ~(key[1] = Decls[id].pkg /\ key[2] = Decls[id].name)

\* C30: a build of json.RawMessage that finds it in neither discoveredTypes
\* nor the Storage returns the module leaf, no placeholder, and no build
\* ever puts json.RawMessage into discoveredTypes or the Storage
C30_OpaqueMarker ==
  /\ \A id \in OpaqueMarkers : NeverRemembered(id)
  /\ (result.op = "AddType" /\ result.typeId \in OpaqueMarkers
        /\ ~result.wasDiscovered /\ ~result.wasStored) =>
       /\ result.status = "ok"
       /\ result.rep = Leaf(Module)

\* json.RawMessage was built after Config, whose fields of that type were
\* built before, was committed
C30_Witness ==
  /\ result.op = "AddType" /\ result.typeId = "RawMessage" /\ result.status = "ok"
  /\ result.rep = Leaf(Module)
  /\ StorageKey("Config") \in DOMAIN db
  /\ FieldValue(db[StorageKey("Config")][1], <<"handler">>).Type = Module


\* whether a deepDereference ended, and without a placeholder when it
\* returned a value
EndsResolved(r) == r.status # "overflow" /\ (r.status = "ok" => ~HasPlaceholder(r.val))

\* C31: deepDereference of a value the builder committed to the Storage ends,
\* and when every reference resolved what it returns contains no placeholder;
\* so does the deepDereference a query ran.
C31_DeepDereferenceEnds ==
  /\ \A v \in Committed : EndsResolved(deepDereference(db, v, 0))
  /\ result.op \in {"LoadTypeByPath", "LoadTypesByModuleID"} =>
       /\ result.status # "overflow"
       /\ result.status = "ok" =>
            /\ ~HasPlaceholder(result.rep)
            /\ \A j \in DOMAIN result.vals : ~HasPlaceholder(result.vals[j])


\* whether a text begins with another
BeginsWith(doc, prefix) ==
  Len(prefix) <= Len(doc) /\ SubSeq(doc, 1, Len(prefix)) = prefix

\* the struct fields of a value a query returned and of the values in it
FieldsOf(v) == UNION {{sub.StructFields[j] : j \in DOMAIN sub.StructFields} : sub \in SubValues(v)}

\* whether a struct field has the doc of its target, when one of the two has
\* a doc
SameDocAsTarget(sf) ==
  (sf.Doc # <<>> \/ UnderlyingTypeVal(sf.Value).Doc # <<>>) =>
     sf.Doc = UnderlyingTypeVal(sf.Value).Doc

\* C32 as stated: after deepDereference every struct field that has a doc, or
\* whose target has one, has the doc of its target, and that text begins with
\* the doc the field had before when it had one.
C32_FieldDocConsistency ==
  \A p \in DeepDereferenced :
     /\ \A sf \in FieldsOf(p[2]) : SameDocAsTarget(sf)
     /\ \A j \in DOMAIN p[1].StructFields :
          p[1].StructFields[j].Doc # <<>> =>
            BeginsWith(p[2].StructFields[j].Doc, p[1].StructFields[j].Doc)

\* C32, amended: the common text begins with the doc the field had before
\* without the white space at its ends.
C32_FieldDocTrimmed ==
  \A p \in DeepDereferenced :
     /\ \A sf \in FieldsOf(p[2]) : SameDocAsTarget(sf)
     /\ \A j \in DOMAIN p[1].StructFields :
          p[1].StructFields[j].Doc # <<>> =>
            BeginsWith(p[2].StructFields[j].Doc, TrimSpace(p[1].StructFields[j].Doc))

\* a query deeply dereferenced a struct with a documented field of an
\* undocumented type, a documented field of a documented type, and an
\* undocumented field of a documented type
C32_Witness ==
  \E p \in DeepDereferenced : \E j, k, l \in DOMAIN p[1].StructFields :
     /\ p[1].StructFields[j].Doc # <<>>
     /\ TargetTypeDoc(p[1].StructFields[j].Value) = <<>>
     /\ p[2].StructFields[j].Doc = TrimSpace(p[1].StructFields[j].Doc)
     /\ p[2].StructFields[j].Doc # p[1].StructFields[j].Doc
     /\ p[1].StructFields[k].Doc # <<>>
     /\ TargetTypeDoc(p[1].StructFields[k].Value) # <<>>
     /\ UnderlyingTypeVal(p[2].StructFields[k].Value).Doc = p[2].StructFields[k].Doc
     /\ p[1].StructFields[l].Doc = <<>>
     /\ TargetTypeDoc(p[1].StructFields[l].Value) # <<>>
     /\ p[2].StructFields[l].Doc # <<>>


\* what the Storage holds for the identity a value names, if anything
StoredTarget(v) ==
  getTypeByFullName(db, SplitN2(v.SameAs, "@")[1],
                    IF Len(SplitN2(v.SameAs, "@")) = 2 THEN SplitN2(v.SameAs, "@")[2] ELSE <<>>)

RECURSIVE WithoutContext(_)
\* a value without the namespace and inline key of its innermost value
WithoutContext(v) ==
  IF v.Elems # <<>> THEN [v EXCEPT !.Elems = <<WithoutContext(v.Elems[1])>>]
  ELSE [v EXCEPT !.ModuleNamespace = <<>>, !.ModuleInlineKey = <<>>]

\* the values the Storage holds and the values inside them
StoredValues == UNION {SubValues(v) : v \in Committed}

\* the stored values that name another type, each as it is stored and with
\* a namespace and an inline key
References ==
  {[v EXCEPT !.ModuleNamespace = <<HTTPHandlers>>, !.ModuleInlineKey = << <<"handler">> >>] :
     v \in {v \in StoredValues : v.SameAs # <<>>}}
    \cup {v \in StoredValues : v.SameAs # <<>>}

\* whether r is the loaded value with v's namespace and inline key on its
\* innermost value and nowhere else
ContextTransferred(v, loaded, r) ==
  /\ r.status = "ok"
  /\ Innermost(r.val).ModuleNamespace = v.ModuleNamespace
  /\ Innermost(r.val).ModuleInlineKey = v.ModuleInlineKey
  /\ [WithoutContext(r.val) EXCEPT !.Doc = <<>>] = [WithoutContext(loaded) EXCEPT !.Doc = <<>>]
  /\ \A c \in Containers(r.val) : c.ModuleNamespace = <<>> /\ c.ModuleInlineKey = <<>>

\* C33: dereference of a value that names a stored type returns the stored
\* value with the namespace and the inline key of the reference on the
\* innermost value of its elems chain and on no array or map of that chain;
\* dereference of a value that names no type returns the value itself,
\* whatever the Storage holds.
C33_ContextTransfer ==
  /\ \A v \in References :
       StoredTarget(v) # <<>> => ContextTransferred(v, StoredTarget(v)[1], dereference(db, v))
  /\ \A v \in StoredValues :
       v.SameAs = <<>> =>
         /\ dereference(db, v) = [status |-> "ok", val |-> v]
         /\ dereference(<<>>, v) = [status |-> "ok", val |-> v]

\* the Storage holds a reference with a namespace and an inline key to a map
\* of arrays, and dereference put both on the value inside the array
C33_Witness ==
  \E v \in StoredValues :
     /\ v.SameAs # <<>>
     /\ v.ModuleNamespace = <<HTTPHandlers>>
     /\ v.ModuleInlineKey = << <<"handler">> >>
     /\ StoredTarget(v) # <<>>
     /\ StoredTarget(v)[1].Type = Map
     /\ StoredTarget(v)[1].Elems[1].Type = Array
     /\ Innermost(StoredTarget(v)[1]).ModuleNamespace = <<>>
     /\ dereference(db, v).val.Elems[1].Elems[1].Type = Module
     /\ dereference(db, v).val.Elems[1].Elems[1].ModuleNamespace = <<HTTPHandlers>>
     /\ dereference(db, v).val.Elems[1].Elems[1].ModuleInlineKey = << <<"handler">> >>
     /\ dereference(db, v).val.Elems[1].ModuleNamespace = <<>>


\* C34: every identity in discoveredTypes has an entry in the Storage, and
\* the placeholder a discovered-set hit returns for it can be dereferenced.
C34_DiscoveredBacked ==
  \A sameAs \in DOMAIN discoveredTypes :
     /\ \E id \in TypeIds : IdentityKey(id) = sameAs /\ StorageKey(id) \in DOMAIN db
     /\ dereference(db, Placeholder(sameAs)).status = "ok"


\* C35: deepDereference of a value deepDereference returned gives that value
\* again, equal in every attribute.
C35_DeepDereferenceIdempotent ==
  \A p \in DeepDereferenced :
     deepDereference(db, p[2], 0) = [status |-> "ok", val |-> p[2]]


\* the calls and methods of the scanned files, registration before method,
\* type by type, in one file
RegistrationFirst ==
  <<NodesOf(SelectSeq(<<"cT", "mT", "cU", "mU", "cV", "mV">>,
                      LAMBDA item : \E p \in DOMAIN FlatNodes(scan.files) :
                                       FlatNodes(scan.files)[p] = ItemNodes(item)[1]))>>

\* C36: what findCaddyModuleIdents returns, the map or the failure, is what it
\* returns for the same registrations and methods visited in another order:
\* each type's registration before its method.
C36_OrderIndependence ==
  scan.outcome # "" =>
    /\ scan.outcome = findCaddyModuleIdents(RegistrationFirst).status
    /\ scan.mods = findCaddyModuleIdents(RegistrationFirst).mods


RECURSIVE LongestDescent(_, _, _)
\* the most map and array steps a traversal made in a row, given the kinds it
\* switched on
LongestDescent(kinds, run, longest) ==
  IF kinds = <<>> THEN longest
  ELSE IF Head(kinds) \in {Map, Array}
    THEN LongestDescent(Tail(kinds), run + 1, IF run + 1 > longest THEN run + 1 ELSE longest)
  ELSE LongestDescent(Tail(kinds), 0, longest)

RECURSIVE Nesting(_)
\* how many arrays and maps are around the innermost value of a value, the
\* references it goes through resolved
Nesting(v) ==
  IF v.Elems # <<>> THEN 1 + Nesting(v.Elems[1])
  ELSE IF v.SameAs # <<>> /\ StoredTarget(v) # <<>> THEN Nesting(StoredTarget(v)[1])
  ELSE 0

\* the iterations of the loop that reached the type switch
Iterations == Len(result.trace.kinds)

StoredFields ==
  UNION {{Decls[id].underlying.fields[i] : i \in DOMAIN Decls[id].underlying.fields} :
           id \in {id \in TypeIds : /\ Decls[id].underlying.k = "struct"
                                    /\ StorageKey(id) \in DOMAIN db}}

\* C38: for the json annotation of every field of a stored struct type,
\* jsonNameFromTag returns the text before the annotation's first comma, the
\* empty name when it begins with a comma, and false exactly when that text is
\* "-"; and no key of a stored struct field contains a comma or an option.
C38_NameExtraction ==
  /\ \A field \in StoredFields :
       /\ jsonNameFromTag(field.json).ok = (SerializationName(field) # <<"-">>)
       /\ jsonNameFromTag(field.json).ok =>
            jsonNameFromTag(field.json).name = SerializationName(field)
  /\ \A v \in StoredValues : \A j \in DOMAIN v.StructFields :
       \A p \in DOMAIN v.StructFields[j].Key :
          v.StructFields[j].Key[p] \notin {",", "omitempty"}

====
